---- MODULE Spec2Model ----
(***************************************************************************)
(* A model of the pure engines of json-workbench:                          *)
(*   - the line diff engine   (src/src/utils/diff-utils.ts)                *)
(*   - the path engine        (src/src/utils/path-utils.ts)                *)
(* Every engine is a set of pure functions.  Each function is an operator  *)
(* computed the way the code computes it.  A run is one call: Init draws   *)
(* the arguments from bounded sets, the action applies the function and    *)
(* stores what it returns.  SpecDiff, SpecRows and SpecPath run the calls  *)
(* of one engine each; Spec runs them all.                                 *)
(***************************************************************************)
EXTENDS Integers, Sequences, FiniteSets, TLC

VARIABLES
    call,               \* which function the run calls
    pc,                 \* "ready" before the call, "done" after it ("rows" in between for the row pipeline)
    left, right,        \* diffLines: the two line arrays of the call
    limit,              \* diffLines: the cell limit the guard compared against
    ops,                \* diffLines: the returned DiffOp[]
    via,                \* diffLines: which branch returned ("lcs" | "quickDiff")
    gn, gm, gquick,     \* the guard of diffLines evaluated on two lengths
    inOps,              \* operationsToUnifiedRows: its argument
    rows,               \* operationsToUnifiedRows: its result, sliceDiffWithContext's argument
    contextLines,       \* sliceDiffWithContext: its second argument
    visible,            \* sliceDiffWithContext: its result
    root, path,         \* sanitizePath: its arguments
    clean,              \* sanitizePath: its result (clean, threw)
    again,              \* sanitizePath applied to its own result
    container, segment, \* hasChild: its arguments
    child,              \* hasChild: its result
    dotPath, jsonPath,  \* toDotPath and toJsonPath: their results for path
    qKey, qValue,       \* matchesQuery: the entry it is asked about
    query,              \* matchesQuery and searchTree: the query
    matched,            \* matchesQuery: its result
    doc,                \* searchTree: the document as written, members in source order
    tree,               \* searchTree: its root, the value JSON.parse gives for doc
    maxResults,         \* searchTree: its cap
    hits,               \* searchTree: the returned ExploreHit[]
    meta,               \* entryMeta: its result for qValue
    jsonText,           \* parseJsonWithDiagnostics and toLineColumn: the text
    outcome,            \* what JSON.parse does on text: the value it returns or the message it throws
    parseResult,        \* parseJsonWithDiagnostics: the returned ParseResult
    atOffset,           \* toLineColumn: its position argument
    located,            \* toLineColumn and buildErrorContext: line, column, lineText, caretLine
    atLine, atColumn,   \* toOffset: its line and column arguments
    lineColumnOffset,   \* toOffset: its result
    state               \* app.ts: the fields of state the handlers below read and write

diffVars  == <<left, right, limit, ops, via, gn, gm, gquick>>
rowVars   == <<inOps, rows, contextLines, visible>>
pathVars  == <<root, path, clean, again, container, segment, child, dotPath, jsonPath>>
searchVars == <<qKey, qValue, query, matched, doc, tree, maxResults, hits, meta>>
parseVars == <<jsonText, outcome, parseResult, atOffset, located, atLine, atColumn, lineColumnOffset>>
appVars == <<state>>
vars      == <<call, pc, diffVars, rowVars, pathVars, searchVars, parseVars, appVars>>

\* What the calls of one engine leave alone.
notDiff   == <<rowVars, pathVars, searchVars, parseVars, appVars>>
notRows   == <<diffVars, pathVars, searchVars, parseVars, appVars>>
notPath   == <<diffVars, rowVars, searchVars, parseVars, appVars>>
notSearch == <<diffVars, rowVars, pathVars, parseVars, appVars>>
notParse == <<diffVars, rowVars, pathVars, searchVars, appVars>>
notApp == <<diffVars, rowVars, pathVars, searchVars, parseVars>>

-----------------------------------------------------------------------------
(* Bounds of the model *)

MaxLen == 3          \* longest line array given to diffLines
ScaledLimit == 2     \* a cell limit small enough for short arrays to cross it
MaxRows == 8         \* longest DiffOp[] given to operationsToUnifiedRows
MaxContext == 3      \* largest contextLines given to sliceDiffWithContext
MaxPath == 3         \* longest path given to sanitizePath
MaxResults == 4      \* largest cap given to searchTree
MaxOffset == 12      \* largest N of the generated "position N" messages
MaxLine == 3         \* largest L of the generated "line L column C" messages
MaxColumn == 4       \* largest C of the generated "line L column C" messages
MaxClickedPath == 1  \* longest path clicked in the explorer
MaxCursor == 1       \* fold markers the cursor can stand at

(* The cell limit of the code: src/src/utils/diff-utils.ts:7 *)
LcsCellLimit == 3000000

-----------------------------------------------------------------------------
(* Helpers *)

Max(a, b) == IF a >= b THEN a ELSE b
Min(a, b) == IF a <= b THEN a ELSE b

SeqsUpTo(S, k) == UNION {[1..l -> S] : l \in 0..k}

RECURSIVE SumSeq(_)
SumSeq(s) == IF s = <<>> THEN 0 ELSE Head(s) + SumSeq(Tail(s))

RECURSIVE Flatten(_)
Flatten(ss) == IF ss = <<>> THEN <<>> ELSE Head(ss) \o Flatten(Tail(ss))

-----------------------------------------------------------------------------
(* diff-utils.ts: DiffOp and the diff of two line arrays *)

\* The value of an array read past its end.
undefined == "<undefined>"

\* left[i] with a 0-based index, as JavaScript reads it.
At(arr, i) == IF i >= 0 /\ i < Len(arr) THEN arr[i + 1] ELSE undefined

OpEqual(l, r) == [type |-> "equal", left |-> l, right |-> r]
OpDel(l) == [type |-> "del", left |-> l]
OpAdd(r) == [type |-> "add", right |-> r]

\* quickDiff: const max = Math.max(left.length, right.length)
quickDiffEndMin(l, r) == Min(Len(l), Len(r))
quickDiffEnd(l, r) == Max(Len(l), Len(r))

\* quickDiff: l === r && l !== undefined
quickSameTypo(li, ri) == li = ri /\ li = undefined
quickSame(li, ri) == li = ri /\ li # undefined

\* function quickDiff(left, right): the positional walk.
RECURSIVE quickDiffFrom(_, _, _, _)
quickDiffFrom(l, r, i, acc) ==
    IF i >= quickDiffEnd(l, r) THEN acc
    ELSE LET li == At(l, i)
             ri == At(r, i)
         IN IF quickSame(li, ri)
            THEN quickDiffFrom(l, r, i + 1, Append(acc, OpEqual(li, ri)))
            ELSE quickDiffFrom(l, r, i + 1,
                    acc \o (IF li # undefined THEN <<OpDel(li)>> ELSE <<>>)
                        \o (IF ri # undefined THEN <<OpAdd(ri)>> ELSE <<>>))

quickDiff(l, r) == quickDiffFrom(l, r, 0, <<>>)

\* The table with the match case lost: every cell is the max of its neighbours.
lcsTableNoMatch(l, r) ==
    LET n == Len(l)
        m == Len(r)
        table[i \in 0..n, j \in 0..m] ==
            IF i = n \/ j = m THEN 0
            ELSE Max(table[i + 1, j], table[i, j + 1])
    IN table

\* The table of diffLines: table[i][j] is filled from the bottom right; row n
\* and column m keep the 0 the Int32Array starts with.
lcsTable(l, r) ==
    LET n == Len(l)
        m == Len(r)
        table[i \in 0..n, j \in 0..m] ==
            IF i = n \/ j = m THEN 0
            ELSE IF l[i + 1] = r[j + 1] THEN table[i + 1, j + 1] + 1
            ELSE Max(table[i + 1, j], table[i, j + 1])
    IN table

\* The choice diffLines makes on two different lines: delete when true.
preferDelStrict(table, i, j) == table[i + 1, j] > table[i, j + 1]
preferDel(table, i, j) == table[i + 1, j] >= table[i, j + 1]

\* The three loops of diffLines after the table is filled.
RECURSIVE lcsWalk(_, _, _, _, _, _)
lcsWalk(l, r, table, i, j, acc) ==
    IF i < Len(l) /\ j < Len(r)
    THEN IF l[i + 1] = r[j + 1]
         THEN lcsWalk(l, r, table, i + 1, j + 1, Append(acc, OpEqual(l[i + 1], r[j + 1])))
         ELSE IF preferDel(table, i, j)
              THEN lcsWalk(l, r, table, i + 1, j, Append(acc, OpDel(l[i + 1])))
              ELSE lcsWalk(l, r, table, i, j + 1, Append(acc, OpAdd(r[j + 1])))
    ELSE IF i < Len(l)
         THEN lcsWalk(l, r, table, i + 1, j, Append(acc, OpDel(l[i + 1])))
         ELSE IF j < Len(r)
              THEN lcsWalk(l, r, table, i, j + 1, Append(acc, OpAdd(r[j + 1])))
              ELSE acc

lcsDiff(l, r) == lcsWalk(l, r, lcsTable(l, r), 0, 0, <<>>)

\* The guard of diffLines: n * m > 3000000, with the literal as a parameter.
usesQuickDiffAtLimit(cells, n, m) == n * m >= cells
usesQuickDiff(cells, n, m) == n * m > cells

\* diffLines with the literal 3000000 as a parameter.
diffLinesWithin(cells, l, r) ==
    IF usesQuickDiff(cells, Len(l), Len(r)) THEN quickDiff(l, r) ELSE lcsDiff(l, r)

\* export function diffLines(left, right)
diffLines(l, r) == diffLinesWithin(LcsCellLimit, l, r)

-----------------------------------------------------------------------------
(* Inputs of the diff engine *)

LeftLines == {"a", "b", "c"}
RightLines == {"a", "b", "c", "x"}
CellLimits == {LcsCellLimit, ScaledLimit}
\* Lengths on both sides of the real limit: 1500 * 2000 = 3000000.
GuardLengths == {0, 1, 1500, 2000, 2001}

-----------------------------------------------------------------------------
(* diff-utils.ts: numbered rows and context folding *)

\* The null of a row's leftNo / rightNo (the counters start at 1 and only grow).
null == 0

RowContext(leftNo, rightNo, text) ==
    [kind |-> "context", leftNo |-> leftNo, rightNo |-> rightNo, text |-> text]
RowDel(leftNo, text) == [kind |-> "del", leftNo |-> leftNo, rightNo |-> null, text |-> text]
RowAdd(rightNo, text) == [kind |-> "add", leftNo |-> null, rightNo |-> rightNo, text |-> text]
Gap(omitted) == [kind |-> "gap", omitted |-> omitted]

\* The row operationsToUnifiedRows pushes for one op.
rowOf(op, leftNo, rightNo) ==
    IF op.type = "equal" THEN RowContext(leftNo, rightNo, op.left)
    ELSE IF op.type = "del" THEN RowDel(leftNo, op.left)
    ELSE RowAdd(rightNo, op.right)

\* leftNo after one op: equal and del advance it.
nextLeftNo(op, leftNo) == IF op.type \in {"equal", "del"} THEN leftNo + 1 ELSE leftNo

\* rightNo after one op: equal and add advance it.
nextRightNoAlways(op, rightNo) == rightNo + 1
nextRightNo(op, rightNo) == IF op.type \in {"equal", "add"} THEN rightNo + 1 ELSE rightNo

RECURSIVE unifiedRowsFrom(_, _, _, _)
unifiedRowsFrom(o, leftNo, rightNo, acc) ==
    IF o = <<>> THEN acc
    ELSE unifiedRowsFrom(Tail(o), nextLeftNo(Head(o), leftNo), nextRightNo(Head(o), rightNo),
                         Append(acc, rowOf(Head(o), leftNo, rightNo)))

\* export function operationsToUnifiedRows(ops)
operationsToUnifiedRows(o) == unifiedRowsFrom(o, 1, 1, <<>>)

\* sliceDiffWithContext: the 0-based indexes of the rows that are not context.
changedIndexes(rs) == {k - 1 : k \in {i \in 1..Len(rs) : rs[i].kind # "context"}}

\* sliceDiffWithContext: the range marked around one changed index.
keepStart(index, c) == Max(0, index - c)
keepEndBefore(len, index, c) == Min(len - 1, index + c - 1)
keepEnd(len, index, c) == Min(len - 1, index + c)

\* sliceDiffWithContext: the keep array once every changed index has marked
\* its range (0-based).
keepOf(rs, c) ==
    [i \in 0..(Len(rs) - 1) |->
        \E index \in changedIndexes(rs) :
            i >= keepStart(index, c) /\ i <= keepEnd(Len(rs), index, c)]

\* sliceDiffWithContext: the inner loop, the end of the run of rows not kept.
RECURSIVE runEnd(_, _, _)
runEnd(keep, len, cursor) ==
    IF cursor < len /\ ~keep[cursor] THEN runEnd(keep, len, cursor + 1) ELSE cursor

\* sliceDiffWithContext: the outer loop.
RECURSIVE sliceScan(_, _, _, _)
sliceScan(rs, keep, cursor, acc) ==
    IF cursor >= Len(rs) THEN acc
    ELSE IF keep[cursor]
         THEN sliceScan(rs, keep, cursor + 1, Append(acc, rs[cursor + 1]))
         ELSE LET stop == runEnd(keep, Len(rs), cursor)
                  omitted == stop - cursor
              IN sliceScan(rs, keep, stop,
                           IF omitted > 0 THEN Append(acc, Gap(omitted)) ELSE acc)

\* sliceDiffWithContext without its early return.
sliceAlwaysScan(rs, c) == sliceScan(rs, keepOf(rs, c), 0, <<>>)

\* export function sliceDiffWithContext(rows, contextLines)
sliceDiffWithContext(rs, c) ==
    IF changedIndexes(rs) = {} THEN <<>> ELSE sliceScan(rs, keepOf(rs, c), 0, <<>>)

(* Inputs of the row functions *)
RowOps == {OpEqual("a", "a"), OpDel("b"), OpAdd("x")}
ContextSizes == (-1)..MaxContext

-----------------------------------------------------------------------------
(* JSON values and path segments *)

\* A string is the sequence of its characters.
Digits == <<"0", "1", "2", "3", "4", "5", "6", "7", "8", "9">>
IsDigit(c) == \E d \in 1..10 : Digits[d] = c
DigitValue(c) == (CHOOSE d \in 1..10 : Digits[d] = c) - 1

\* String(n) for an integer n >= 0.
RECURSIVE natToString(_)
natToString(n) ==
    IF n < 10 THEN <<Digits[n + 1]>> ELSE Append(natToString(n \div 10), Digits[(n % 10) + 1])

\* The number a string of digits denotes.
RECURSIVE stringToNat(_)
stringToNat(str) ==
    IF str = <<>> THEN 0
    ELSE 10 * stringToNat(SubSeq(str, 1, Len(str) - 1)) + DigitValue(str[Len(str)])

\* A property name that is an array index: the canonical decimal form of an
\* integer >= 0.
isIndexKey(str) ==
    /\ Len(str) >= 1
    /\ \A k \in 1..Len(str) : IsDigit(str[k])
    /\ Len(str) = 1 \/ str[1] # "0"

\* A JSON value: its type, String(value) for a scalar, the own keys of an
\* object in the order JavaScript lists them, and the elements of an array or
\* the values of an object (items[k] belongs to keys[k]).
JNull == [type |-> "null", text |-> <<"n", "u", "l", "l">>, keys |-> <<>>, items |-> <<>>]
JNumber(n) == [type |-> "number", text |-> natToString(n), keys |-> <<>>, items |-> <<>>]
JString(str) == [type |-> "string", text |-> str, keys |-> <<>>, items |-> <<>>]
JArray(items) == [type |-> "array", text |-> <<>>, keys |-> <<>>, items |-> items]

\* What reading a missing property gives.
JUndefined == [type |-> "undefined", text |-> <<>>, keys |-> <<>>, items |-> <<>>]

\* An object built from members in source order: JavaScript lists the index
\* keys first, in ascending numeric order, then the other keys as inserted.
JObject(ks, vs) ==
    LET index == SelectSeq([k \in 1..Len(ks) |-> k], LAMBDA k : isIndexKey(ks[k]))
        other == SelectSeq([k \in 1..Len(ks) |-> k], LAMBDA k : ~isIndexKey(ks[k]))
        order == SortSeq(index, LAMBDA a, b : stringToNat(ks[a]) < stringToNat(ks[b])) \o other
    IN [type |-> "object", text |-> <<>>,
        keys |-> [k \in 1..Len(order) |-> ks[order[k]]],
        items |-> [k \in 1..Len(order) |-> vs[order[k]]]]

\* A path segment: a number n (+ 0.5 when half) or a string.
NumSeg(n) == [kind |-> "number", n |-> n, half |-> FALSE, s |-> <<>>]
HalfSeg(n) == [kind |-> "number", n |-> n, half |-> TRUE, s |-> <<>>]
StrSeg(str) == [kind |-> "string", n |-> 0, half |-> FALSE, s |-> str]

\* String(key): the property name a segment is used as.
toPropertyKey(seg) ==
    IF seg.kind = "string" THEN seg.s
    ELSE LET neg == seg.n < 0
             whole == IF ~neg THEN seg.n ELSE IF seg.half THEN -seg.n - 1 ELSE -seg.n
         IN (IF neg THEN <<"-">> ELSE <<>>) \o natToString(whole)
            \o (IF seg.half THEN <<".", "5">> ELSE <<>>)

-----------------------------------------------------------------------------
(* path-utils.ts: sanitizePath and hasChild *)

isArray(value) == value.type = "array"

\* typeof value
typeOf(value) == IF value.type \in {"null", "array", "object"} THEN "object" ELSE value.type

\* export function isPlainObject(value)
isPlainObjectNullToo(value) == typeOf(value) = "object" /\ ~isArray(value)
isPlainObject(value) == value.type # "null" /\ typeOf(value) = "object" /\ ~isArray(value)

\* export function isContainer(value)
isContainer(value) == isArray(value) \/ isPlainObject(value)

\* The names every object inherits from Object.prototype.
ObjectPrototypeNames ==
    {<<"t", "o", "S", "t", "r", "i", "n", "g">>,
     <<"v", "a", "l", "u", "e", "O", "f">>,
     <<"c", "o", "n", "s", "t", "r", "u", "c", "t", "o", "r">>}

S_length == <<"l", "e", "n", "g", "t", "h">>

\* Object.prototype.hasOwnProperty.call(container, key) throws on null and
\* undefined.
hasOwnPropertyThrows(obj) == obj.type \in {"null", "undefined"}

\* key in container: own and inherited names.
hasProperty(obj, seg) ==
    LET name == toPropertyKey(seg)
    IN \/ \E k \in 1..Len(obj.keys) : obj.keys[k] = name
       \/ name \in ObjectPrototypeNames

\* Object.prototype.hasOwnProperty.call(container, key)
hasOwnProperty(obj, seg) ==
    LET name == toPropertyKey(seg)
    IN IF obj.type = "object" THEN \E k \in 1..Len(obj.keys) : obj.keys[k] = name
       ELSE IF obj.type = "array"
            THEN (isIndexKey(name) /\ stringToNat(name) < Len(obj.items)) \/ name = S_length
       ELSE IF obj.type = "string"
            THEN (isIndexKey(name) /\ stringToNat(name) < Len(obj.text)) \/ name = S_length
       ELSE FALSE

\* export function hasChild(container, key)
hasChild(cont, key) ==
    IF isArray(cont)
    THEN key.kind = "number" /\ ~key.half /\ key.n >= 0 /\ key.n < Len(cont.items)
    ELSE hasOwnProperty(cont, key)

\* cursor[segment]
childOf(cursor, seg) ==
    LET name == toPropertyKey(seg)
    IN IF isArray(cursor) /\ isIndexKey(name) /\ stringToNat(name) < Len(cursor.items)
       THEN cursor.items[stringToNat(name) + 1]
       ELSE IF \E k \in 1..Len(cursor.keys) : cursor.keys[k] = name
            THEN cursor.items[CHOOSE k \in 1..Len(cursor.keys) : cursor.keys[k] = name]
            ELSE JUndefined

\* The loop of sanitizePath from index i with the given cursor.
RECURSIVE sanitizeFrom(_, _, _, _)
sanitizeFrom(p, cursor, i, acc) ==
    IF i >= Len(p) THEN [clean |-> acc, threw |-> FALSE]
    ELSE IF ~isContainer(cursor) THEN [clean |-> acc, threw |-> FALSE]
    ELSE IF hasOwnPropertyThrows(cursor) THEN [clean |-> acc, threw |-> TRUE]
    ELSE IF ~hasChild(cursor, p[i + 1]) THEN [clean |-> acc, threw |-> FALSE]
    ELSE sanitizeFrom(p, childOf(cursor, p[i + 1]), i + 1, Append(acc, p[i + 1]))

\* export function sanitizePath(path, root): the returned array, and whether
\* the call threw instead of returning.
sanitizePath(p, r) == sanitizeFrom(p, r, 0, <<>>)

(* Inputs of the path functions *)
S_a == <<"a">>
S_0 == <<"0">>
S_toString == <<"t", "o", "S", "t", "r", "i", "n", "g">>

Segments ==
    {NumSeg(0), NumSeg(1), NumSeg(-1), HalfSeg(0),
     StrSeg(S_a), StrSeg(S_0), StrSeg(S_length), StrSeg(S_toString)}

Leaves == {JNull, JNumber(5), JString(<<"a", "b">>)}

\* The sequences of one or two different keys.
KeyLists(K) == {<<k>> : k \in K} \cup {<<kk[1], kk[2]>> : kk \in {x \in K \X K : x[1] # x[2]}}

ArraysOf(V) == {JArray(items) : items \in SeqsUpTo(V, 2)}
ObjectsOf(K, V) ==
    {JObject(<<>>, <<>>)}
    \cup UNION {{JObject(ks, vs) : vs \in [1..Len(ks) -> V]} : ks \in KeyLists(K)}

\* Containers of leaves, containers of those, and a few deeper values.
FlatValues == ArraysOf(Leaves) \cup ObjectsOf({S_a, S_0, S_toString}, Leaves)
InnerValues ==
    {JNull, JString(<<"a", "b">>), JArray(<<>>), JArray(<<JNull, JNumber(5)>>),
     JObject(<<S_a>>, <<JNull>>), JObject(<<S_toString, S_0>>, <<JNumber(5), JArray(<<>>)>>)}
NestedValues == ArraysOf(InnerValues) \cup ObjectsOf({S_a, S_0}, InnerValues)
DeepValues ==
    {JArray(<<v>>) : v \in {JObject(<<S_a>>, <<JArray(<<JNull>>)>>),
                            JArray(<<JArray(<<JString(<<"a", "b">>)>>)>>)}}
    \cup {JObject(<<S_a>>, <<v>>) : v \in {JArray(<<JObject(<<S_0>>, <<JNull>>)>>),
                                           JObject(<<S_a>>, <<JObject(<<S_a>>, <<JNumber(5)>>)>>)}}

Roots == Leaves \cup FlatValues \cup NestedValues \cup DeepValues
Containers == {v \in Roots : v.type \in {"array", "object"}}


-----------------------------------------------------------------------------
(* path-utils.ts: matchesQuery *)

UpperLetters ==
    <<"A", "B", "C", "D", "E", "F", "G", "H", "I", "J", "K", "L", "M",
      "N", "O", "P", "Q", "R", "S", "T", "U", "V", "W", "X", "Y", "Z">>
LowerLetters ==
    <<"a", "b", "c", "d", "e", "f", "g", "h", "i", "j", "k", "l", "m",
      "n", "o", "p", "q", "r", "s", "t", "u", "v", "w", "x", "y", "z">>

IsUpper(c) == \E k \in 1..26 : UpperLetters[k] = c
IsLower(c) == \E k \in 1..26 : LowerLetters[k] = c

\* String.prototype.toLowerCase on the characters of the model.
toLowerCase(str) ==
    [k \in 1..Len(str) |->
        IF IsUpper(str[k])
        THEN LowerLetters[CHOOSE i \in 1..26 : UpperLetters[i] = str[k]]
        ELSE str[k]]

\* String.prototype.includes: the search from each start index in turn.
RECURSIVE includesFrom(_, _, _)
includesFrom(str, search, from) ==
    IF from + Len(search) > Len(str) THEN FALSE
    ELSE IF SubSeq(str, from + 1, from + Len(search)) = search THEN TRUE
    ELSE includesFrom(str, search, from + 1)

includes(str, search) == includesFrom(str, search, 0)

S_objectObject ==
    <<"[", "o", "b", "j", "e", "c", "t", " ", "O", "b", "j", "e", "c", "t", "]">>

\* String(value): the text of a scalar, the elements of an array joined by
\* commas (null as the empty string), "[object Object]" for an object.
RECURSIVE stringOf(_)
stringOf(value) ==
    IF value.type = "array"
    THEN LET joined[k \in 0..Len(value.items)] ==
                 IF k = 0 THEN <<>>
                 ELSE joined[k - 1]
                      \o (IF k > 1 THEN <<",">> ELSE <<>>)
                      \o (IF value.items[k].type \in {"null", "undefined"} THEN <<>>
                          ELSE stringOf(value.items[k]))
         IN joined[Len(value.items)]
    ELSE IF value.type = "object" THEN S_objectObject
    ELSE value.text

\* matchesQuery without its isContainer test.
matchesQueryAnyValue(key, value, q) ==
    IF q = <<>> THEN FALSE
    ELSE LET lower == toLowerCase(q)
         IN IF includes(toLowerCase(toPropertyKey(key)), lower) THEN TRUE
            ELSE includes(toLowerCase(stringOf(value)), lower)

\* export function matchesQuery(key, value, query)
matchesQuery(key, value, q) ==
    IF q = <<>> THEN FALSE
    ELSE LET lower == toLowerCase(q)
         IN IF includes(toLowerCase(toPropertyKey(key)), lower) THEN TRUE
            ELSE IF isContainer(value) THEN FALSE
            ELSE includes(toLowerCase(stringOf(value)), lower)

(* Inputs of matchesQuery *)
QueryKeys == {NumSeg(0), NumSeg(5), StrSeg(<<"a">>), StrSeg(<<"A", "b">>), StrSeg(<<"n">>)}
QueryValues ==
    {JNull, JNumber(5), JString(<<"a", "b">>), JString(<<"B", "A">>), JString(<<>>),
     JArray(<<>>), JArray(<<JString(<<"a", "b">>), JNull, JNumber(5)>>),
     JObject(<<<<"a">>>>, <<JString(<<"b">>)>>)}
Queries ==
    {<<>>, <<"a">>, <<"A">>, <<"b">>, <<"a", "b">>, <<"B", "a">>, <<"5">>, <<"0">>,
     <<"n">>, <<"U", "L">>, <<",">>, <<"o", "b", "j">>}


-----------------------------------------------------------------------------
(* path-utils.ts: valueType, truncate, entryMeta and searchTree *)

S_null == <<"n", "u", "l", "l">>
S_array == <<"a", "r", "r", "a", "y">>
S_object == <<"o", "b", "j", "e", "c", "t">>
S_string == <<"s", "t", "r", "i", "n", "g">>
S_number == <<"n", "u", "m", "b", "e", "r">>
S_undefined == <<"u", "n", "d", "e", "f", "i", "n", "e", "d">>

\* export function valueType(value): "null", "array", or typeof value.
valueType(value) ==
    IF value.type = "null" THEN S_null
    ELSE IF isArray(value) THEN S_array
    ELSE IF value.type = "object" THEN S_object
    ELSE IF value.type = "string" THEN S_string
    ELSE IF value.type = "number" THEN S_number
    ELSE S_undefined

\* The display lengths handed to truncate: 26 by searchTree, 22 by entryMeta.
PreviewLength == 26
MetaLength == 22

\* The three dots truncate appends.
S_dots == <<".", ".", ".">>

\* function truncate(value, length)
truncate(str, length) ==
    IF Len(str) <= length THEN str
    ELSE SubSeq(str, 1, Max(0, length - 1)) \o S_dots

\* export function entryMeta(value)
entryMeta(value) ==
    IF isArray(value)
    THEN S_array \o <<" ", "(">> \o natToString(Len(value.items)) \o <<")">>
    ELSE IF isPlainObject(value)
         THEN S_object \o <<" ", "(">> \o natToString(Len(value.keys)) \o <<")">>
         ELSE valueType(value) \o <<" ">> \o truncate(stringOf(value), MetaLength)

\* The two previews of searchTree.
keyPreview(key) == <<"k", "e", "y", " ", "\"">> \o key \o <<"\"">>
valuePreview(value) == valueType(value) \o <<" ">> \o truncate(stringOf(value), PreviewLength)

Hit(p, preview) == [path |-> p, preview |-> preview]

\* searchTree: hits.length < maxResults, the test before each push.
roomForAlways(acc, cap) == TRUE
roomFor(acc, cap) == Len(acc) < cap

\* searchTree.walk, with the hits so far as an argument and the hits after it
\* as the result; walkItems and walkKeys are its two forEach loops from the
\* k-th entry on.
RECURSIVE walk(_, _, _, _, _)
RECURSIVE walkItems(_, _, _, _, _, _)
RECURSIVE walkKeys(_, _, _, _, _, _)

walk(value, p, cap, lower, acc) ==
    IF Len(acc) >= cap THEN acc
    ELSE IF isArray(value) THEN walkItems(value, p, cap, lower, 1, acc)
    ELSE IF isPlainObject(value) THEN walkKeys(value, p, cap, lower, 1, acc)
    ELSE IF includes(toLowerCase(stringOf(value)), lower) /\ roomFor(acc, cap)
         THEN Append(acc, Hit(p, valuePreview(value)))
         ELSE acc

walkItems(value, p, cap, lower, k, acc) ==
    IF k > Len(value.items) THEN acc
    ELSE walkItems(value, p, cap, lower, k + 1,
                   walk(value.items[k], Append(p, NumSeg(k - 1)), cap, lower, acc))

walkKeys(value, p, cap, lower, k, acc) ==
    IF k > Len(value.keys) THEN acc
    ELSE LET key == value.keys[k]
             nextPath == Append(p, StrSeg(key))
             withKey == IF includes(toLowerCase(key), lower) /\ roomFor(acc, cap)
                        THEN Append(acc, Hit(nextPath, keyPreview(key)))
                        ELSE acc
         IN walkKeys(value, p, cap, lower, k + 1,
                     walk(value.items[k], nextPath, cap, lower, withKey))

\* export function searchTree(root, query, maxResults)
searchTree(r, q, cap) == walk(r, <<>>, cap, toLowerCase(q), <<>>)

\* JSON.parse on a document: the same values, with the members of every
\* object listed the way JavaScript lists own keys.
RECURSIVE parsed(_)
parsed(d) ==
    IF d.type = "array" THEN JArray([k \in 1..Len(d.items) |-> parsed(d.items[k])])
    ELSE IF d.type = "object"
         THEN JObject(d.keys, [k \in 1..Len(d.items) |-> parsed(d.items[k])])
         ELSE d

(* Inputs of searchTree *)

\* A document's object: the members in the order the text has them.
DocObject(ks, vs) == [type |-> "object", text |-> <<>>, keys |-> ks, items |-> vs]

S_needle == <<"n", "e", "e", "d", "l", "e">>
S_needlefoo == <<"n", "e", "e", "d", "l", "e", "f", "o", "o">>
Text26 == [k \in 1..26 |-> IF k = 1 THEN "a" ELSE "x"]
Text27 == [k \in 1..27 |-> IF k = 1 THEN "a" ELSE "x"]

DocLeaves == {JNull, JNumber(10), JString(<<"a", "b">>), JString(<<"B", "A">>)}
DocKeys == {<<"a">>, <<"b">>, <<"1">>, <<"0">>}

Docs ==
    DocLeaves
    \cup {JString(Text26), JString(Text27), JArray(<<JString(Text27), JString(Text26)>>)}
    \cup {JArray(items) : items \in SeqsUpTo({JNull, JString(<<"a", "b">>), JNumber(10)}, 2)}
    \cup UNION {{DocObject(ks, vs) : vs \in [1..Len(ks) -> {JNumber(10), JString(<<"a", "b">>)}]}
                : ks \in KeyLists(DocKeys)}
    \cup {DocObject(<<<<"a">>>>, <<DocObject(<<<<"b">>>>, <<JString(S_needlefoo)>>)>>),
          DocObject(<<<<"b">>, <<"a">>>>,
                    <<JArray(<<JString(<<"a", "b">>), DocObject(<<<<"a">>>>, <<JNull>>)>>),
                      DocObject(<<<<"1">>, <<"a">>, <<"0">>>>,
                                <<JString(<<"a">>), JString(<<"B", "A">>), JArray(<<JNumber(10)>>)>>)>>),
          JArray(<<DocObject(<<<<"a">>, <<"0">>>>, <<JString(<<"a">>), JString(<<"a">>)>>),
                   JArray(<<JString(<<"a", "b">>), JString(<<"b">>)>>)>>)}

SearchQueries == {<<>>, <<"a">>, <<"A", "B">>, <<"0">>, <<"1">>, S_needle, <<"x", "x">>}


(* Inputs of entryMeta *)

Text22 == [k \in 1..22 |-> "y"]
Text23 == [k \in 1..23 |-> "y"]

MetaValues ==
    {JNull, JNumber(10), JString(<<>>), JString(Text22), JString(Text23), JString(Text27),
     JArray(<<>>), JArray(<<JNull, JNull>>), JObject(<<<<"a">>>>, <<JNull>>)}


-----------------------------------------------------------------------------
(* path-utils.ts: toDotPath and toJsonPath *)

S_root == <<"r", "o", "o", "t">>
S_dollar == <<"$">>

\* The character classes of /^[A-Za-z_$][A-Za-z0-9_$]*$/.
IsIdentifierStart(c) == IsUpper(c) \/ IsLower(c) \/ c = "_" \/ c = "$"
IsIdentifierPart(c) == IsIdentifierStart(c) \/ IsDigit(c)

\* The test with the first character class left out: /^[A-Za-z0-9_$]*$/.
isIdentifierAnyStart(str) == \A k \in 1..Len(str) : IsIdentifierPart(str[k])

\* /^[A-Za-z_$][A-Za-z0-9_$]*$/.test(str)
isIdentifier(str) ==
    /\ Len(str) >= 1
    /\ IsIdentifierStart(str[1])
    /\ \A k \in 2..Len(str) : IsIdentifierPart(str[k])

\* What JSON.stringify writes for one character of a string: the quote and
\* the backslash escaped with a backslash, a line feed as \n.
quoteChar(c) ==
    IF c = "\"" THEN <<"\\", "\"">>
    ELSE IF c = "\\" THEN <<"\\", "\\">>
    ELSE IF c = "\n" THEN <<"\\", "n">>
    ELSE <<c>>

\* JSON.stringify(str) for a string.
stringify(str) ==
    <<"\"">> \o Flatten([k \in 1..Len(str) |-> quoteChar(str[k])]) \o <<"\"">>

\* What toDotPath and toJsonPath append to output for one segment.
segmentText(seg) ==
    IF seg.kind = "number" THEN <<"[">> \o toPropertyKey(seg) \o <<"]">>
    ELSE IF isIdentifier(seg.s) THEN <<".">> \o seg.s
    ELSE <<"[">> \o stringify(seg.s) \o <<"]">>

\* export function toDotPath(path)
toDotPath(p) == S_root \o Flatten([k \in 1..Len(p) |-> segmentText(p[k])])

\* export function toJsonPath(path)
toJsonPath(p) == S_dollar \o Flatten([k \in 1..Len(p) |-> segmentText(p[k])])

(* Inputs of toDotPath and toJsonPath *)

FormatSegments ==
    {NumSeg(0), NumSeg(12), StrSeg(<<"a">>), StrSeg(<<>>), StrSeg(<<"0">>),
     StrSeg(<<"b", " ", "c">>), StrSeg(<<"_", "A", "1", "$">>), StrSeg(<<"1", "a">>),
     StrSeg(<<"a", "\"", "]">>), StrSeg(<<"\\", "\n">>), StrSeg(<<"a", "-", "b">>)}


-----------------------------------------------------------------------------
(* Regular expressions, as json-utils.ts uses them *)

\* The characters \s, \d and \w stand for, among those of the model.
Whitespace == {" ", "\t", "\n", "\r"}
DigitChars == {Digits[k] : k \in 1..Len(Digits)}
LetterChars == {UpperLetters[k] : k \in 1..Len(UpperLetters)}
               \cup {LowerLetters[k] : k \in 1..Len(LowerLetters)}
WordChars == LetterChars \cup DigitChars \cup {"_"}

toUpperChar(c) ==
    IF IsLower(c) THEN UpperLetters[CHOOSE k \in 1..Len(LowerLetters) : LowerLetters[k] = c]
    ELSE c
toLowerChar(c) ==
    IF IsUpper(c) THEN LowerLetters[CHOOSE k \in 1..Len(UpperLetters) : UpperLetters[k] = c]
    ELSE c

\* A regular expression is a sequence of items: a character class, negated
\* or not, taken once ("1"), any number of times ("*") or at least once ("+").
One(chars) == [chars |-> chars, neg |-> FALSE, q |-> "1"]
Star(chars) == [chars |-> chars, neg |-> FALSE, q |-> "*"]
Plus(chars) == [chars |-> chars, neg |-> FALSE, q |-> "+"]
StarNot(chars) == [chars |-> chars, neg |-> TRUE, q |-> "*"]

\* The items of a literal, and of a literal under the i flag.
Lit(str) == [k \in 1..Len(str) |-> One({str[k]})]
LitI(str) == [k \in 1..Len(str) |-> One({toLowerChar(str[k]), toUpperChar(str[k])})]

InItem(c, item) == (c \in item.chars) # item.neg

\* How many characters of str from the i-th on are in the class of item.
runLength(item, str, i) ==
    LET fits == {n \in 0..(Len(str) - i + 1) :
                    \A j \in 0..(n - 1) : InItem(str[i + j], item)}
    IN CHOOSE n \in fits : \A other \in fits : other <= n

\* The fewest and the most characters item can take at position i of str.
leastOf(item) == IF item.q = "*" THEN 0 ELSE 1
mostOf(item, str, i) ==
    IF item.q = "1" THEN Min(runLength(item, str, i), 1) ELSE runLength(item, str, i)

\* The items of re from the k-th on match at position i of str.
RECURSIVE matchesFrom(_, _, _, _)
matchesFrom(re, k, str, i) ==
    \/ k > Len(re)
    \/ \E c \in leastOf(re[k])..mostOf(re[k], str, i) : matchesFrom(re, k + 1, str, i + c)

\* The position after each item from the k-th on in that match: each item
\* takes the most characters that let the rest match.
RECURSIVE cutsFrom(_, _, _, _)
cutsFrom(re, k, str, i) ==
    IF k > Len(re) THEN <<>>
    ELSE LET good == {c \in leastOf(re[k])..mostOf(re[k], str, i) :
                         matchesFrom(re, k + 1, str, i + c)}
             c == CHOOSE x \in good : \A other \in good : other <= x
         IN <<i + c>> \o cutsFrom(re, k + 1, str, i + c)

\* RegExp.prototype.exec: the leftmost match of re in str.
exec(re, str) ==
    LET starts == {i \in 1..(Len(str) + 1) : matchesFrom(re, 1, str, i)}
    IN IF starts = {} THEN [ok |-> FALSE, start |-> 0, cuts |-> <<>>]
       ELSE LET i == CHOOSE x \in starts : \A other \in starts : x <= other
            IN [ok |-> TRUE, start |-> i, cuts |-> cutsFrom(re, 1, str, i)]

\* RegExp.prototype.test
test(re, str) == \E i \in 1..(Len(str) + 1) : matchesFrom(re, 1, str, i)

\* What the k-th item of re took in the match found (k > 1).
group(found, k, str) == SubSeq(str, found.cuts[k - 1], found.cuts[k] - 1)

-----------------------------------------------------------------------------
(* json-utils.ts *)

\* String.prototype.trim
trim(str) ==
    LET inked == {k \in 1..Len(str) : str[k] \notin Whitespace}
    IN IF inked = {} THEN <<>>
       ELSE SubSeq(str, CHOOSE a \in inked : \A b \in inked : a <= b,
                        CHOOSE a \in inked : \A b \in inked : b <= a)

\* text.split(/\r?\n/): the lines from position i on, cur being the part of
\* the current line before i.
RECURSIVE splitFrom(_, _, _)
splitFrom(str, i, cur) ==
    IF i > Len(str) THEN <<cur>>
    ELSE IF str[i] = "\n"
         THEN <<IF cur # <<>> /\ cur[Len(cur)] = "\r"
                THEN SubSeq(cur, 1, Len(cur) - 1) ELSE cur>>
              \o splitFrom(str, i + 1, <<>>)
         ELSE splitFrom(str, i + 1, Append(cur, str[i]))

splitLines(str) == splitFrom(str, 1, <<>>)

\* function clamp(value, min, max)
clamp(value, min, max) == Min(max, Max(min, value))

\* toOffset with the column taken as a distance: column in place of column - 1.
toOffsetFromZero(str, line, column) ==
    LET lines == splitLines(str)
        taken == Min(Max(line - 1, 0), Len(lines))
        offset == SumSeq([i \in 1..taken |-> Len(lines[i]) + 1])
    IN clamp(offset + Max(0, column), 0, Max(0, Len(str) - 1))

\* function toOffset(text, line, column)
toOffset(str, line, column) ==
    LET lines == splitLines(str)
        taken == Min(Max(line - 1, 0), Len(lines))
        offset == SumSeq([i \in 1..taken |-> Len(lines[i]) + 1])
    IN clamp(offset + Max(0, column - 1), 0, Max(0, Len(str) - 1))

\* /position\s+(\d+)/i and /line\s+(\d+)\s+column\s+(\d+)/i
positionRegex == LitI(<<"p", "o", "s", "i", "t", "i", "o", "n">>) \o <<Plus(Whitespace), Plus(DigitChars)>>
lineColumnRegex ==
    LitI(<<"l", "i", "n", "e">>) \o <<Plus(Whitespace), Plus(DigitChars), Plus(Whitespace)>>
    \o LitI(<<"c", "o", "l", "u", "m", "n">>) \o <<Plus(Whitespace), Plus(DigitChars)>>

\* extractPositionFromMessage with the two tests in the other order.
extractLineColumnFirst(str, message) ==
    LET positionMatch == exec(positionRegex, message)
        lineColMatch == exec(lineColumnRegex, message)
    IN IF lineColMatch.ok
       THEN toOffset(str, stringToNat(group(lineColMatch, 6, message)),
                          stringToNat(group(lineColMatch, 15, message)))
       ELSE IF positionMatch.ok
            THEN clamp(stringToNat(group(positionMatch, 10, message)), 0, Max(0, Len(str) - 1))
            ELSE Max(0, Len(str) - 1)

\* function extractPositionFromMessage(text, message)
extractPositionFromMessage(str, message) ==
    LET positionMatch == exec(positionRegex, message)
        lineColMatch == exec(lineColumnRegex, message)
    IN IF positionMatch.ok
       THEN clamp(stringToNat(group(positionMatch, 10, message)), 0, Max(0, Len(str) - 1))
       ELSE IF lineColMatch.ok
            THEN toOffset(str, stringToNat(group(lineColMatch, 6, message)),
                               stringToNat(group(lineColMatch, 15, message)))
            ELSE Max(0, Len(str) - 1)

\* /\s+in\s+JSON\s+at\s+position\s+\d+/i
inJsonAtRegex ==
    <<Plus(Whitespace)>> \o LitI(<<"i", "n">>) \o <<Plus(Whitespace)>> \o LitI(<<"J", "S", "O", "N">>)
    \o <<Plus(Whitespace)>> \o LitI(<<"a", "t">>) \o <<Plus(Whitespace)>> \o LitI(<<"p", "o", "s", "i", "t", "i", "o", "n">>)
    \o <<Plus(Whitespace), Plus(DigitChars)>>

\* function normalizeParserMessage(message)
normalizeParserMessage(message) ==
    LET found == exec(inJsonAtRegex, message)
    IN IF ~found.ok THEN message
       ELSE SubSeq(message, 1, found.start - 1)
            \o SubSeq(message, found.cuts[Len(found.cuts)], Len(message))

\* toLineColumn: its loop from the line of number index + 1 on.
RECURSIVE lineColumnFrom(_, _, _, _)
lineColumnFrom(lines, position, index, consumed) ==
    IF index >= Len(lines)
    THEN [line |-> Len(lines), column |-> Len(lines[Len(lines)]) + 1]
    ELSE IF position <= consumed + Len(lines[index + 1])
         THEN [line |-> index + 1, column |-> position - consumed + 1]
         ELSE lineColumnFrom(lines, position, index + 1, consumed + Len(lines[index + 1]) + 1)

\* function toLineColumn(text, position)
toLineColumn(str, position) == lineColumnFrom(splitLines(str), position, 0, 0)

\* function buildErrorContext(text, line, column)
buildErrorContext(str, line, column) ==
    LET lines == splitLines(str)
        at == Max(0, line - 1)
    IN [lineText |-> IF at < Len(lines) THEN lines[at + 1] ELSE <<>>,
        caretLine |-> [k \in 1..Max(0, column - 1) |-> " "] \o <<"^">>]

\* The six suggestions of suggestFix and its last resort.
TrailingCommaHint == "Check for a trailing comma before a closing brace or bracket."
DoubleQuotesHint == "Use double quotes for keys and string values."
QuoteKeysHint == "Wrap object keys in double quotes."
NoCommentsHint == "Remove comments. JSON does not allow comments."
TruncatedHint == "The document looks truncated. Check missing closing braces or brackets."
MissingCommaHint == "You may be missing a comma between values."
GenericHint == "Inspect this position for missing commas, quotes, or invalid characters."

\* How far the window of suggestFix reaches on each side of the position.
WindowReach == 40

\* text.slice(Math.max(0, position - 40), Math.min(text.length, position + 40))
around(str, position) ==
    SubSeq(str, Max(0, position - WindowReach) + 1, Min(Len(str), position + WindowReach))

\* The regular expressions of suggestFix, in its order.
trailingCommaRegex == <<One({","}), Star(Whitespace), One({"}", "]"})>>
tokenCloserRegex == Lit(<<"U", "n", "e", "x", "p", "e", "c", "t", "e", "d", " ", "t", "o", "k", "e", "n", " ">>) \o <<One({"}", "]"})>>
quotedKeyRegex == <<One({"'"}), StarNot({"'"}), One({"'"}), Star(Whitespace), One({":"})>>
quotedValueRegex == <<One({":"}), Star(Whitespace), One({"'"}), StarNot({"'"}), One({"'"})>>
tokenQuoteRegex == Lit(<<"U", "n", "e", "x", "p", "e", "c", "t", "e", "d", " ", "t", "o", "k", "e", "n", " ", "'">>)
bareKeyRegex ==
    <<One({"{", ","}), Star(Whitespace), One(LetterChars \cup {"_", "$"}),
      Star(WordChars \cup {"$", "-"}), Star(Whitespace), One({":"})>>
blockCommentRegex == Lit(<<"/", "*">>)
lineCommentRegex == Lit(<<"/", "/">>)
endOfInputRegex == LitI(<<"U", "n", "e", "x", "p", "e", "c", "t", "e", "d", " ", "e", "n", "d", " ", "o", "f", " ", "J", "S", "O", "N", " ", "i", "n", "p", "u", "t">>)
quoteQuoteRegex == <<One({"\""}), Star(Whitespace), One({"\""})>>
digitQuoteRegex == <<One(DigitChars), Star(Whitespace), One({"\""})>>
trueQuoteRegex == Lit(<<"t", "r", "u", "e">>) \o <<Star(Whitespace), One({"\""})>>

\* suggestFix with the bare-key test moved in front of the single-quote test.
suggestFixKeysFirst(str, position, message) ==
    LET window == around(str, position)
    IN IF test(trailingCommaRegex, window) \/ test(tokenCloserRegex, message)
       THEN TrailingCommaHint
       ELSE IF test(bareKeyRegex, window)
       THEN QuoteKeysHint
       ELSE IF test(quotedKeyRegex, window) \/ test(quotedValueRegex, window)
               \/ test(tokenQuoteRegex, message)
       THEN DoubleQuotesHint
       ELSE IF test(blockCommentRegex, window) \/ test(lineCommentRegex, window)
       THEN NoCommentsHint
       ELSE IF test(endOfInputRegex, message)
       THEN TruncatedHint
       ELSE IF test(quoteQuoteRegex, window) \/ test(digitQuoteRegex, window)
               \/ test(trueQuoteRegex, window)
       THEN MissingCommaHint
       ELSE GenericHint

\* function suggestFix(text, position, message)
suggestFix(str, position, message) ==
    LET window == around(str, position)
    IN IF test(trailingCommaRegex, window) \/ test(tokenCloserRegex, message)
       THEN TrailingCommaHint
       ELSE IF test(quotedKeyRegex, window) \/ test(quotedValueRegex, window)
               \/ test(tokenQuoteRegex, message)
       THEN DoubleQuotesHint
       ELSE IF test(bareKeyRegex, window)
       THEN QuoteKeysHint
       ELSE IF test(blockCommentRegex, window) \/ test(lineCommentRegex, window)
       THEN NoCommentsHint
       ELSE IF test(endOfInputRegex, message)
       THEN TruncatedHint
       ELSE IF test(quoteQuoteRegex, window) \/ test(digitQuoteRegex, window)
               \/ test(trueQuoteRegex, window)
       THEN MissingCommaHint
       ELSE GenericHint

\* The error of a ParseResult that has none.
nullError == [none |-> TRUE]

\* export function emptyParse()
emptyParse == [empty |-> TRUE, ok |-> FALSE, value |-> JNull, error |-> nullError]

\* !text.trim(), the test parseJsonWithDiagnostics starts with.
isBlankNever(str) == FALSE
isBlank(str) == trim(str) = <<>>

\* The catch block of parseJsonWithDiagnostics: the result it returns, the
\* line and column it takes from toLineColumn, and the position it starts from.
invalidResult(message, position, location, suggestion, context) ==
    [empty |-> FALSE, ok |-> FALSE, value |-> JNull,
     error |-> [message |-> message,
                position |-> position,
                line |-> location.line,
                column |-> location.column,
                suggestion |-> suggestion,
                lineText |-> context.lineText,
                caretLine |-> context.caretLine]]
diagnoseAt(str, message, position, location) ==
    invalidResult(normalizeParserMessage(message), position, location,
                  suggestFix(str, position, message),
                  buildErrorContext(str, location.line, location.column))
diagnose(str, message, position) ==
    diagnoseAt(str, message, position, toLineColumn(str, position))

\* export function parseJsonWithDiagnostics(text); parse is what
\* JSON.parse(text) does: it returns parse.value when parse.ok, and throws
\* an Error with parse.message otherwise.
parseJsonWithDiagnostics(str, parse) ==
    IF isBlank(str) THEN emptyParse
    ELSE IF parse.ok
    THEN [empty |-> FALSE, ok |-> TRUE, value |-> parse.value, error |-> nullError]
    ELSE diagnose(str, parse.message, extractPositionFromMessage(str, parse.message))


(* Inputs of parseJsonWithDiagnostics and toLineColumn *)

NoOutcome == [ok |-> FALSE, value |-> JNull, message |-> <<>>]
NoLocation == [line |-> 1, column |-> 1, lineText |-> <<>>, caretLine |-> <<"^">>]

BlankTexts == {<<>>, <<" ", " ">>, <<" ", "\n", "\t">>, <<"\r", "\n">>}

\* The texts JSON.parse accepts, each with the value it returns.
T_one == <<"1">>
T_objectA == <<"{", "\"", "a", "\"", ":", "1", "}">>
T_nullArray == <<"[", "n", "u", "l", "l", "]">>
T_paddedNull == <<" ", "n", "u", "l", "l", "\n">>
T_objectX == <<"{", "\"", "x", "\"", ":", "1", "}">>
T_nested == <<"{", "\"", "a", "\"", ":", "{", "\"", "b", "\"", ":", "1", "}", "}">>
ValidTexts == {T_one, T_objectA, T_nullArray, T_paddedNull}

jsonValueOf(str) ==
    IF str = T_one THEN JNumber(1)
    ELSE IF str = T_objectA THEN JObject(<<<<"a">>>>, <<JNumber(1)>>)
    ELSE IF str = T_nullArray THEN JArray(<<JNull>>)
    ELSE IF str = T_objectX THEN JObject(<<<<"x">>>>, <<JNumber(1)>>)
    ELSE IF str = T_nested
         THEN JObject(<<<<"a">>>>, <<JObject(<<<<"b">>>>, <<JNumber(1)>>)>>)
    ELSE JNull

\* Texts JSON.parse rejects.
T_trailingComma == <<"{", "\"", "a", "\"", ":", "1", ",", "}">>
T_singleQuotes == <<"{", "'", "a", "'", ":", "1", "}">>
T_bareKey == <<"{", "a", ":", "1", "}">>
T_crlf == <<"{", "\r", "\n", "\"", "a", "\"", ":", "1", ",", "\r", "\n", "}">>
T_far == <<"[", "1", ",", "]", " ", " ", " ", " ", " ", " ", " ", " ", " ", " ", " ", " ", " ", " ", " ", " ", " ", " ", " ", " ", " ", " ", " ", " ", " ", " ", " ", " ", " ", " ", " ", " ", " ", " ", " ", " ", " ", " ", " ", " ", " ", " ", " ", " ", " ", " ", "{", "a", ":", "1", "}">>
InvalidTexts ==
    {T_trailingComma, T_singleQuotes, T_bareKey, T_crlf, T_far,
     <<"[", "1", ",", "\n", "]">>, <<"{", "\"", "a", "\"", ":", " ", "'", "b", "'", "}">>, <<"{", "\"", "a", "\"", ":", "1", " ", "/", "*", " ", "c", " ", "*", "/", "}">>, <<"/", "/", " ", "c", "\n", "1">>, <<"{", "\"", "a", "\"", ":">>,
     <<"{", "\"", "a", "\"", ":", "1", " ", "\"", "b", "\"", ":", "2", "}">>, <<"[", "\"", "x", "\"", " ", "\"", "y", "\"", "]">>, <<"[", "t", "r", "u", "e", " ", "\"", "x", "\"", "]">>, <<"[", "1", " ", "2", "]">>, <<"{", "\n", "\"", "a", "\"", ":", "1", ",", "\n", "}">>,
     <<"{", "'", "a", "'", ":", "1", ",", "}">>, <<"{", "a", ":", "'", "b", "'", "}">>, <<"[", "1", " ", "2", "]", " ", "/", "/">>, <<"x">>}

ParseTexts == BlankTexts \cup ValidTexts \cup InvalidTexts

\* Messages of the errors JSON.parse throws, in the wordings of the engines:
\* with "position N", with "line L column C", with both and with neither;
\* "Invalid JSON" is what the catch clause puts for a thrown non-Error.
PositionMessage(n) == <<"U", "n", "e", "x", "p", "e", "c", "t", "e", "d", " ", "t", "o", "k", "e", "n", " ", "x", " ", "i", "n", " ", "J", "S", "O", "N", " ", "a", "t", " ", "p", "o", "s", "i", "t", "i", "o", "n", " ">> \o natToString(n)
LineColumnMessage(l, c) ==
    <<"J", "S", "O", "N", ".", "p", "a", "r", "s", "e", ":", " ", "u", "n", "e", "x", "p", "e", "c", "t", "e", "d", " ", "c", "h", "a", "r", "a", "c", "t", "e", "r", " ", "a", "t", " ", "l", "i", "n", "e", " ">> \o natToString(l)
    \o <<" ", "c", "o", "l", "u", "m", "n", " ">> \o natToString(c) \o <<" ", "o", "f", " ", "t", "h", "e", " ", "J", "S", "O", "N", " ", "d", "a", "t", "a">>

Messages ==
    {PositionMessage(n) : n \in 0..MaxOffset}
    \cup {LineColumnMessage(l, c) : l \in 1..MaxLine, c \in 1..MaxColumn}
    \cup {<<"U", "n", "e", "x", "p", "e", "c", "t", "e", "d", " ", "t", "o", "k", "e", "n", " ", "}", " ", "i", "n", " ", "J", "S", "O", "N", " ", "a", "t", " ", "p", "o", "s", "i", "t", "i", "o", "n", " ", "7">>,
          <<"U", "n", "e", "x", "p", "e", "c", "t", "e", "d", " ", "t", "o", "k", "e", "n", " ", "]", " ", "i", "n", " ", "J", "S", "O", "N", " ", "a", "t", " ", "p", "o", "s", "i", "t", "i", "o", "n", " ", "3">>,
          <<"U", "n", "e", "x", "p", "e", "c", "t", "e", "d", " ", "t", "o", "k", "e", "n", " ", "'", " ", "i", "n", " ", "J", "S", "O", "N", " ", "a", "t", " ", "p", "o", "s", "i", "t", "i", "o", "n", " ", "1">>,
          <<"U", "n", "e", "x", "p", "e", "c", "t", "e", "d", " ", "t", "o", "k", "e", "n", " ", "'", "a", "'", ",", " ", "\"", "{", "a", ":", "1", "}", "\"", " ", "i", "s", " ", "n", "o", "t", " ", "v", "a", "l", "i", "d", " ", "J", "S", "O", "N">>,
          <<"U", "n", "e", "x", "p", "e", "c", "t", "e", "d", " ", "e", "n", "d", " ", "o", "f", " ", "J", "S", "O", "N", " ", "i", "n", "p", "u", "t">>,
          <<"E", "x", "p", "e", "c", "t", "e", "d", " ", "'", ",", "'", " ", "o", "r", " ", "'", "}", "'", " ", "a", "f", "t", "e", "r", " ", "p", "r", "o", "p", "e", "r", "t", "y", " ", "v", "a", "l", "u", "e", " ", "i", "n", " ", "J", "S", "O", "N", " ", "a", "t", " ", "p", "o", "s", "i", "t", "i", "o", "n", " ", "5", "4", " ", "(", "l", "i", "n", "e", " ", "1", " ", "c", "o", "l", "u", "m", "n", " ", "5", "5", ")">>,
          <<"E", "x", "p", "e", "c", "t", "e", "d", " ", "d", "o", "u", "b", "l", "e", "-", "q", "u", "o", "t", "e", "d", " ", "p", "r", "o", "p", "e", "r", "t", "y", " ", "n", "a", "m", "e", " ", "i", "n", " ", "J", "S", "O", "N", " ", "a", "t", " ", "p", "o", "s", "i", "t", "i", "o", "n", " ", "7", " ", "(", "l", "i", "n", "e", " ", "3", " ", "c", "o", "l", "u", "m", "n", " ", "1", ")">>,
          <<"B", "a", "d", " ", "c", "o", "n", "t", "r", "o", "l", " ", "c", "h", "a", "r", "a", "c", "t", "e", "r", " ", "i", "n", " ", "s", "t", "r", "i", "n", "g", " ", "l", "i", "t", "e", "r", "a", "l", " ", "i", "n", " ", "J", "S", "O", "N", " ", "a", "t", " ", "p", "o", "s", "i", "t", "i", "o", "n", " ", "9", "9", "9">>,
          <<"J", "S", "O", "N", " ", "P", "a", "r", "s", "e", " ", "e", "r", "r", "o", "r", ":", " ", "U", "n", "e", "x", "p", "e", "c", "t", "e", "d", " ", "i", "d", "e", "n", "t", "i", "f", "i", "e", "r", " ", "\"", "a", "\"">>,
          <<"I", "n", "v", "a", "l", "i", "d", " ", "J", "S", "O", "N">>}

Outcomes(str) ==
    IF str \in ValidTexts
    THEN {[ok |-> TRUE, value |-> jsonValueOf(str), message |-> <<>>]}
    ELSE IF str \in BlankTexts
    THEN {[ok |-> FALSE, value |-> JNull, message |-> <<"U", "n", "e", "x", "p", "e", "c", "t", "e", "d", " ", "e", "n", "d", " ", "o", "f", " ", "J", "S", "O", "N", " ", "i", "n", "p", "u", "t">>]}
    ELSE {[ok |-> FALSE, value |-> JNull, message |-> msg] : msg \in Messages}

LocateTexts ==
    {<<"a", "b", "c">>, <<"a", "b", "\n", "c", "d">>, <<"a", "\n", "\n", "b">>, <<"\n", "a", "b">>, <<"a", "b", "\n">>, <<"a", "\n", "b", "c", "\n", "d">>, <<"a", "\r", "\n", "b">>, T_crlf, <<"{", "\n", "\"", "a", "\"", ":", "1", ",", "\n", "}">>}


-----------------------------------------------------------------------------
(* app.ts: the state and the handlers that write it. A state of the app is
   a record st; a handler maps a state to the next one. rightInput is the
   value of the right textarea, autoRecompute the auto-recompute checkbox. *)

Modes == {"json", "minify", "table", "explore", "diff"}

\* parts joined by sep, as Array.prototype.join does.
RECURSIVE joinWith(_, _)
joinWith(sep, parts) ==
    IF parts = <<>> THEN <<>>
    ELSE IF Len(parts) = 1 THEN parts[1]
    ELSE parts[1] \o sep \o joinWith(sep, Tail(parts))

\* JSON.stringify(value)
RECURSIVE stringifyJson(_)
stringifyJson(value) ==
    IF isArray(value)
    THEN <<"[">>
         \o joinWith(<<",">>, [k \in 1..Len(value.items) |-> stringifyJson(value.items[k])])
         \o <<"]">>
    ELSE IF isPlainObject(value)
    THEN <<"{">>
         \o joinWith(<<",">>, [k \in 1..Len(value.keys) |->
                stringify(value.keys[k]) \o <<":">> \o stringifyJson(value.items[k])])
         \o <<"}">>
    ELSE IF value.type = "string" THEN stringify(value.text)
    ELSE value.text

\* "  ".repeat(depth)
indentOf(depth) == [k \in 1..(2 * depth) |-> " "]

\* The brackets of a container.
openOf(value) == IF isArray(value) THEN "[" ELSE "{"
closeOf(value) == IF isArray(value) THEN "]" ELSE "}"

\* JSON.stringify(value, null, 2), for a value at the given depth.
RECURSIVE stringifyIndented(_, _)
stringifyIndented(value, depth) ==
    IF isContainer(value) /\ value.items # <<>>
    THEN <<openOf(value), "\n">>
         \o joinWith(<<",", "\n">>, [k \in 1..Len(value.items) |->
                indentOf(depth + 1)
                \o (IF isArray(value) THEN <<>> ELSE stringify(value.keys[k]) \o <<":", " ">>)
                \o stringifyIndented(value.items[k], depth + 1)])
         \o <<"\n">> \o indentOf(depth) \o <<closeOf(value)>>
    ELSE stringifyJson(value)

stringifyPretty(value) == stringifyIndented(value, 0)

\* renderFoldedJsonText: the summary line of a collapsed container.
foldSummary(value) ==
    <<openOf(value), " ", ".", ".", ".", " ">> \o natToString(Len(value.items))
    \o (IF isArray(value) THEN <<" ", "i", "t", "e", "m">> ELSE <<" ", "k", "e", "y">>)
    \o (IF Len(value.items) = 1 THEN <<>> ELSE <<"s">>)
    \o <<" ", ".", ".", ".", " ", closeOf(value)>>

\* The path segment getEntries gives the k-th entry of a container.
entrySegment(value, k) == IF isArray(value) THEN NumSeg(k - 1) ELSE StrSeg(value.keys[k])

\* renderFoldedJsonText.renderNode: the lines it pushes for one node. The
\* collapsed set holds paths; the code keys it by JSON.stringify(path).
RECURSIVE renderNode(_, _, _, _, _, _)
renderNode(value, depth, p, keyPrefix, isLast, collapsed) ==
    IF isContainer(value)
    THEN IF value.items # <<>> /\ p \in collapsed
         THEN <<indentOf(depth) \o keyPrefix \o foldSummary(value)
                \o (IF isLast THEN <<>> ELSE <<",">>)>>
         ELSE <<indentOf(depth) \o keyPrefix \o <<openOf(value)>>>>
              \o Flatten([k \in 1..Len(value.items) |->
                     renderNode(value.items[k], depth + 1,
                                Append(p, entrySegment(value, k)),
                                IF isArray(value) THEN <<>>
                                ELSE stringify(value.keys[k]) \o <<":", " ">>,
                                k = Len(value.items), collapsed)])
              \o <<indentOf(depth) \o <<closeOf(value)>>
                   \o (IF isLast THEN <<>> ELSE <<",">>)>>
    ELSE <<indentOf(depth) \o keyPrefix \o stringifyJson(value)
           \o (IF isLast THEN <<>> ELSE <<",">>)>>

\* function renderFoldedJsonText(root, collapsed): its text.
renderFoldedJsonText(value, collapsed) ==
    joinWith(<<"\n">>, renderNode(value, 0, <<>>, <<>>, TRUE, collapsed))

\* The paths of the fold markers renderFoldedJsonText makes: one for every
\* array and object it renders, in the order of their lines; nothing below a
\* collapsed node is rendered.
RECURSIVE markerPaths(_, _, _)
markerPaths(value, p, collapsed) ==
    IF ~isContainer(value) THEN <<>>
    ELSE IF value.items # <<>> /\ p \in collapsed THEN <<p>>
    ELSE <<p>> \o Flatten([k \in 1..Len(value.items) |->
             markerPaths(value.items[k], Append(p, entrySegment(value, k)), collapsed)])

\* The markers with children, the ones paintFoldGutter gives a button.
RECURSIVE foldablePaths(_, _)
foldablePaths(value, p) ==
    IF ~isContainer(value) \/ value.items = <<>> THEN {}
    ELSE {p} \cup UNION {foldablePaths(value.items[k], Append(p, entrySegment(value, k)))
                           : k \in 1..Len(value.items)}

\* text.split("\n"): the lines from position i on, cur being the part of the
\* current line before i.
RECURSIVE splitNewlineFrom(_, _, _)
splitNewlineFrom(str, i, cur) ==
    IF i > Len(str) THEN <<cur>>
    ELSE IF str[i] = "\n" THEN <<cur>> \o splitNewlineFrom(str, i + 1, <<>>)
    ELSE splitNewlineFrom(str, i + 1, Append(cur, str[i]))

splitOnNewline(str) == splitNewlineFrom(str, 1, <<>>)

(* The documents and texts of the app *)

\* The values the documents of the model denote.
V_objectA == JObject(<<<<"a">>>>, <<JNumber(1)>>)
V_nullArray == JArray(<<JNull>>)
AppValues == {V_objectA, V_nullArray}

\* What the user types or pastes on the left: nothing, a blank, a truncated
\* document, and documents written with and without white space; and what
\* the user types on the right.
T_blank == <<" ">>
T_truncated == <<"{", "\"", "a", "\"", ":">>
T_spacedA == <<"{", "\"", "a", "\"", ":", " ", "1", "}">>
LeftTyped == {<<>>, T_blank, T_truncated, stringifyJson(V_nullArray)}
RightTyped == {T_truncated, T_spacedA}
TypedTexts == LeftTyped \cup RightTyped

\* The sample of loadSampleIntoLeft is an object written with
\* JSON.stringify(sample, null, 2); a small one stands for it.
SampleText == stringifyPretty(V_objectA)

\* The paths a fold can be toggled at.
FoldPaths == UNION {foldablePaths(v, <<>>) : v \in AppValues}

\* Every text a handler can hand to JSON.parse.
AppTexts ==
    TypedTexts
    \cup {stringifyJson(v) : v \in AppValues}
    \cup {stringifyPretty(v) : v \in AppValues}
    \cup {renderFoldedJsonText(v, c) : v \in AppValues, c \in SUBSET FoldPaths}

\* JSON.parse on the texts of the app: white space between tokens is
\* skipped, the text of a document of the model gives its value, and every
\* other text is rejected. The wording of the message is the engine's; no
\* handler reads it.
stripWhitespace(str) == SelectSeq(str, LAMBDA c : c \notin Whitespace)
jsonParse(str) ==
    IF \E v \in AppValues : stripWhitespace(str) = stringifyJson(v)
    THEN [ok |-> TRUE,
          value |-> CHOOSE v \in AppValues : stripWhitespace(str) = stringifyJson(v),
          message |-> <<>>]
    ELSE [ok |-> FALSE, value |-> JNull,
          message |-> <<"U", "n", "e", "x", "p", "e", "c", "t", "e", "d", " ", "e", "n", "d", " ", "o", "f", " ", "J", "S", "O", "N", " ", "i", "n", "p", "u", "t">>]

\* parseJsonWithDiagnostics on the texts of the app.
appParses == [str \in AppTexts |-> parseJsonWithDiagnostics(str, jsonParse(str))]
appParse(str) == appParses[str]

\* leftText.split("\n") and rightText.split("\n") through diffLines and
\* operationsToUnifiedRows, as recomputeDiff chains them.
diffRowsOf(l, r) ==
    operationsToUnifiedRows(diffLines(splitOnNewline(l), splitOnNewline(r)))

\* The cap updateExploreHits hands to searchTree.
ExploreHitLimit == 80

\* The queries typed in the search box of the explorer.
ExploreQueries == {<<" ", "a", " ">>}

(* The state and the handlers *)

\* const state = { ... } after boot(): refreshFromLeft on the empty left text
\* has locked the right side.
bootState ==
    [mode |-> "json", leftText |-> <<>>, rightText |-> <<>>, rightInput |-> <<>>,
     leftParse |-> emptyParse, rightParse |-> emptyParse,
     rightLocked |-> TRUE, rightDirty |-> FALSE,
     explorePath |-> <<>>, currentPath |-> <<>>, autoRecompute |-> TRUE,
     jsonFoldCollapsed |-> {}, exploreQuery |-> <<>>, exploreHits |-> <<>>,
     diffRows |-> <<>>, diffDirtySinceRecompute |-> FALSE]

\* function findNearestFoldMarker(line): cursor picks the marker found for
\* the line of the cursor.
findNearestFoldMarker(markers, cursor) ==
    IF markers = <<>> THEN <<>> ELSE markers[((cursor - 1) % Len(markers)) + 1]

\* function updateCurrentPathFromRightCursor()
updateCurrentPathFromRightCursor(st, cursor) ==
    IF st.rightLocked \/ ~st.rightParse.ok THEN st
    ELSE IF st.mode # "json" THEN [st EXCEPT !.currentPath = <<>>]
    ELSE [st EXCEPT !.currentPath =
             findNearestFoldMarker(
                 markerPaths(st.rightParse.value, <<>>, st.jsonFoldCollapsed), cursor)]

\* function sanitizePathState()
sanitizePathState(st) ==
    IF ~st.rightParse.ok
    THEN [st EXCEPT !.explorePath = <<>>, !.currentPath = <<>>]
    ELSE [st EXCEPT !.explorePath = sanitizePath(st.explorePath, st.rightParse.value).clean,
                    !.currentPath = sanitizePath(st.currentPath, st.rightParse.value).clean]

\* function isTableModeAvailable() and function normalizeModeAvailability()
isTableModeAvailable(st) ==
    ~st.rightLocked /\ st.rightParse.ok /\ isArray(st.rightParse.value)
normalizeModeNever(st) == st
normalizeModeAvailability(st) ==
    IF st.mode = "table" /\ ~isTableModeAvailable(st) THEN [st EXCEPT !.mode = "json"] ELSE st

\* function updateRightEditorDisplay(): what it puts in the right textarea,
\* and the path it reads back from the cursor in the JSON view.
updateRightEditorDisplay(st, cursor) ==
    IF st.rightLocked THEN [st EXCEPT !.rightInput = <<>>]
    ELSE IF st.mode = "json" /\ st.rightParse.ok
    THEN updateCurrentPathFromRightCursor(
             [st EXCEPT !.rightInput =
                 renderFoldedJsonText(st.rightParse.value, st.jsonFoldCollapsed)],
             cursor)
    ELSE [st EXCEPT !.rightInput = st.rightText]

\* function toggleFold(pathKey)
toggleFold(st, p, cursor) ==
    updateRightEditorDisplay(
        [st EXCEPT !.jsonFoldCollapsed = IF p \in @ THEN @ \ {p} ELSE @ \cup {p}],
        cursor)

\* state.explorePath = path; state.currentPath = [...path];
setExplorePath(st, p) == [st EXCEPT !.explorePath = p, !.currentPath = p]

\* function updateExploreHits()
updateExploreHits(st) ==
    IF ~st.rightParse.ok \/ st.exploreQuery = <<>>
    THEN [st EXCEPT !.exploreHits = <<>>]
    ELSE [st EXCEPT !.exploreHits =
             searchTree(st.rightParse.value, st.exploreQuery, ExploreHitLimit)]

\* function renderExploreBreadcrumb() and function renderExploreHits(), the
\* parts of renderExploreSurface() that write the state.
renderExploreBreadcrumb(st) ==
    setExplorePath(st, sanitizePath(st.explorePath, st.rightParse.value).clean)
renderExploreHits(st) == IF st.exploreQuery = <<>> THEN st ELSE updateExploreHits(st)
renderExploreSurface(st) ==
    IF ~st.rightParse.ok THEN st ELSE renderExploreHits(renderExploreBreadcrumb(st))

\* function renderModePanels(): the surface of the mode, after the right
\* editor is updated.
renderModeSurface(st) == IF st.mode = "explore" THEN renderExploreSurface(st) ELSE st
renderModePanels(st, cursor) == renderModeSurface(updateRightEditorDisplay(st, cursor))

\* function renderAll(source)
renderAll(st, cursor) == renderModePanels(normalizeModeAvailability(st), cursor)

\* function unlockRight() and function lockRight()
unlockRight(st) == [st EXCEPT !.rightLocked = FALSE]
lockRight(st) ==
    [st EXCEPT !.rightLocked = TRUE, !.rightDirty = FALSE, !.rightText = <<>>,
               !.rightParse = emptyParse, !.jsonFoldCollapsed = {},
               !.explorePath = <<>>, !.currentPath = <<>>,
               !.exploreHits = <<>>, !.exploreQuery = <<>>,
               !.diffRows = <<>>, !.diffDirtySinceRecompute = FALSE,
               !.rightInput = <<>>]

\* state.rightText = ...; state.rightParse = parseJsonWithDiagnostics(state.rightText);
setRightText(st, str) == [st EXCEPT !.rightText = str, !.rightParse = appParse(str)]

\* function syncRightFromLeftForMode()
formatForMode(value, m) ==
    IF m = "minify" THEN stringifyJson(value) ELSE stringifyPretty(value)
syncRightFromLeftForMode(st) ==
    IF st.rightLocked \/ ~st.leftParse.ok THEN st
    ELSE setRightText(st, formatForMode(st.leftParse.value, st.mode))

\* function recomputeDiff(formatBoth): both sides are parsed again; when
\* both parsed they are written back formatted if formatBoth, and their
\* lines are diffed; then everything is rendered.
reparseBoth(st) ==
    [st EXCEPT !.leftParse = appParse(st.leftText), !.rightParse = appParse(st.rightText)]
setBothTexts(st, l, r) ==
    [st EXCEPT !.leftText = l, !.rightText = r,
               !.leftParse = appParse(l), !.rightParse = appParse(r)]
formatNeither(st, formatBoth) == st
formatBothTexts(st, formatBoth) ==
    IF formatBoth
    THEN setBothTexts(st, stringifyPretty(st.leftParse.value),
                          stringifyPretty(st.rightParse.value))
    ELSE st
staleDiffRows(st) == [st EXCEPT !.diffDirtySinceRecompute = FALSE]
clearDiffRows(st) == [st EXCEPT !.diffRows = <<>>, !.diffDirtySinceRecompute = FALSE]
keepDiffRows(st) == [st EXCEPT !.diffDirtySinceRecompute = FALSE]
setDiffRows(st) ==
    [st EXCEPT !.diffRows = diffRowsOf(st.leftText, st.rightText),
               !.diffDirtySinceRecompute = FALSE]
diffParsed(st, formatBoth) ==
    IF ~st.leftParse.ok \/ ~st.rightParse.ok THEN clearDiffRows(st)
    ELSE setDiffRows(formatBothTexts(st, formatBoth))
recomputeDiff(st, formatBoth, cursor) ==
    renderAll(diffParsed(reparseBoth(st), formatBoth), cursor)

\* if (state.mode === "diff" && elements.autoRecomputeToggle.checked) recomputeDiff(false)
recomputeIfAuto(st, cursor) ==
    IF st.mode = "diff" /\ st.autoRecompute THEN recomputeDiff(st, FALSE, cursor) ELSE st

\* if (state.mode === "diff") { if (elements.autoRecomputeToggle.checked)
\* recomputeDiff(false) else state.diffDirtySinceRecompute = true }
markDiffDirty(st) == [st EXCEPT !.diffDirtySinceRecompute = TRUE]
recomputeOrMarkDirty(st, cursor) ==
    IF st.mode # "diff" THEN st
    ELSE IF st.autoRecompute THEN recomputeDiff(st, FALSE, cursor)
    ELSE markDiffDirty(st)

\* if (state.mode === "diff") { recomputeDiff(true) }
recomputeIfDiff(st, cursor) ==
    IF st.mode = "diff" THEN recomputeDiff(st, TRUE, cursor) ELSE st

\* function refreshFromLeft(source), in the order of its statements
parseLeft(st) == [st EXCEPT !.leftParse = appParse(st.leftText)]
lockByLeftTextEmptyOnly(st) == IF st.leftText # <<>> THEN unlockRight(st) ELSE lockRight(st)
lockByLeftText(st) == IF trim(st.leftText) # <<>> THEN unlockRight(st) ELSE lockRight(st)
readRight(st) == IF st.rightLocked THEN st ELSE setRightText(st, st.rightInput)
syncOrReadRight(st) ==
    IF st.rightLocked THEN st
    ELSE IF st.leftParse.ok /\ ~st.rightDirty THEN syncRightFromLeftForMode(st)
    ELSE setRightText(st, st.rightInput)
refreshFromLeft(st, cursor) ==
    recomputeOrMarkDirty(
        renderAll(
            updateExploreHits(
                sanitizePathState(syncOrReadRight(lockByLeftText(parseLeft(st))))),
            cursor),
        cursor)

\* elements.leftInput.addEventListener("input", ...)
onLeftInput(st, typed, cursor) == refreshFromLeft([st EXCEPT !.leftText = typed], cursor)

\* function loadSampleIntoLeft()
loadSampleIntoLeft(st, cursor) ==
    refreshFromLeft([st EXCEPT !.leftText = SampleText, !.rightDirty = FALSE], cursor)

\* The right textarea takes typing: it is shown, enabled and not read-only.
rightEditable(st) ==
    /\ ~st.rightLocked
    /\ st.mode \notin {"explore", "table"}
    /\ ~(st.mode = "json" /\ st.rightParse.ok)

\* elements.rightInput.addEventListener("input", ...)
onRightInput(st, typed, cursor) ==
    IF st.rightLocked THEN st
    ELSE renderAll(
             recomputeOrMarkDirty(
                 sanitizePathState(
                     setRightText([st EXCEPT !.rightInput = typed, !.rightDirty = TRUE], typed)),
                 cursor),
             cursor)

\* function resyncRightFromLeft()
resyncRightFromLeft(st, cursor) ==
    IF st.rightLocked \/ ~st.leftParse.ok THEN st
    ELSE recomputeIfDiff(
             renderAll(syncRightFromLeftForMode([st EXCEPT !.rightDirty = FALSE]), cursor),
             cursor)

\* function setMode(mode), in the order of its statements
syncIfClean(st) ==
    IF ~st.rightLocked /\ st.leftParse.ok /\ ~st.rightDirty
    THEN syncRightFromLeftForMode(st) ELSE st
clearCurrentPath(st) ==
    IF st.mode # "explore" /\ st.mode # "json" THEN [st EXCEPT !.currentPath = <<>>] ELSE st
setMode(st, m, cursor) ==
    IF st.mode = m THEN st
    ELSE recomputeIfDiff(
             renderAll(clearCurrentPath(syncIfClean([st EXCEPT !.mode = m])), cursor),
             cursor)

\* The click handlers of the explorer (a column entry, a breadcrumb, a search
\* hit): sanitizePath on the path clicked, then renderExploreSurface().
onExploreClick(st, clicked) ==
    renderExploreSurface(setExplorePath(st, sanitizePath(clicked, st.rightParse.value).clean))

\* elements.exploreSearch.addEventListener("input", ...) and
\* elements.clearExploreSearch.addEventListener("click", ...)
onExploreSearch(st, typed) ==
    renderModeSurface(updateExploreHits([st EXCEPT !.exploreQuery = trim(typed)]))
onClearExploreSearch(st) ==
    renderModeSurface(updateExploreHits([st EXCEPT !.exploreQuery = <<>>]))

\* elements.autoRecomputeToggle.addEventListener("change", ...)
onAutoRecomputeChange(st, cursor) ==
    recomputeIfAuto([st EXCEPT !.autoRecompute = ~st.autoRecompute], cursor)

(* Inputs of the handlers *)

AppSegments == {StrSeg(<<"a">>), StrSeg(<<"x">>), NumSeg(0)}
ClickedPaths == SeqsUpTo(AppSegments, MaxClickedPath)
Cursors == 1..MaxCursor

-----------------------------------------------------------------------------
(* Specification *)

NoDiff ==
    /\ left = <<>>
    /\ right = <<>>
    /\ limit = LcsCellLimit
    /\ ops = <<>>
    /\ via = "none"

NoGuard ==
    /\ gn = 0
    /\ gm = 0
    /\ gquick = FALSE

NoRows ==
    /\ inOps = <<>>
    /\ rows = <<>>
    /\ contextLines = 0
    /\ visible = <<>>

NoPath ==
    /\ root = JNull
    /\ path = <<>>
    /\ clean = [clean |-> <<>>, threw |-> FALSE]
    /\ again = [clean |-> <<>>, threw |-> FALSE]
    /\ container = JNull
    /\ segment = NumSeg(0)
    /\ child = FALSE
    /\ dotPath = <<>>
    /\ jsonPath = <<>>

NoSearch ==
    /\ qKey = NumSeg(0)
    /\ qValue = JNull
    /\ query = <<>>
    /\ matched = FALSE
    /\ doc = JNull
    /\ tree = JNull
    /\ maxResults = 0
    /\ hits = <<>>
    /\ meta = <<>>

NoParse ==
    /\ jsonText = <<>>
    /\ outcome = NoOutcome
    /\ parseResult = emptyParse
    /\ atOffset = 0
    /\ located = NoLocation
    /\ atLine = 1
    /\ atColumn = 1
    /\ lineColumnOffset = 0

NoApp ==
    /\ state = bootState

\* Only the calls of one engine are drawn.
OnlyDiff == NoRows /\ NoPath /\ NoSearch /\ NoParse /\ NoApp
OnlyRows == NoDiff /\ NoGuard /\ NoPath /\ NoSearch /\ NoParse /\ NoApp
OnlyPath == NoDiff /\ NoGuard /\ NoRows /\ NoSearch /\ NoParse /\ NoApp
OnlySearch == NoDiff /\ NoGuard /\ NoRows /\ NoPath /\ NoParse /\ NoApp
OnlyParse == NoDiff /\ NoGuard /\ NoRows /\ NoPath /\ NoSearch /\ NoApp
OnlyApp == NoDiff /\ NoGuard /\ NoRows /\ NoPath /\ NoSearch /\ NoParse

\* A call of diffLines is pending.  The limit is the code's 3000000 or, to
\* drive both branches with short arrays, the scaled one.
InitDiffLines ==
    /\ call = "diffLines"
    /\ pc = "ready"
    /\ left \in SeqsUpTo(LeftLines, MaxLen)
    /\ right \in SeqsUpTo(RightLines, MaxLen)
    /\ limit \in CellLimits
    /\ ops = <<>>
    /\ via = "none"
    /\ NoGuard /\ OnlyDiff

\* The guard of diffLines is pending at sizes where the real limit is crossed.
InitGuard ==
    /\ call = "guard"
    /\ pc = "ready"
    /\ gn \in GuardLengths
    /\ gm \in GuardLengths
    /\ gquick = FALSE
    /\ NoDiff /\ OnlyDiff

InitDiff == InitDiffLines \/ InitGuard

DiffLinesStep ==
    /\ call = "diffLines"
    /\ pc = "ready"
    /\ ops' = (IF limit = LcsCellLimit THEN diffLines(left, right)
               ELSE diffLinesWithin(limit, left, right))
    /\ via' = (IF usesQuickDiff(limit, Len(left), Len(right)) THEN "quickDiff" ELSE "lcs")
    /\ pc' = "done"
    /\ UNCHANGED <<call, left, right, limit, gn, gm, gquick, notDiff>>

GuardStep ==
    /\ call = "guard"
    /\ pc = "ready"
    /\ gquick' = usesQuickDiff(LcsCellLimit, gn, gm)
    /\ pc' = "done"
    /\ UNCHANGED <<call, left, right, limit, ops, via, gn, gm, notDiff>>

NextDiff == DiffLinesStep \/ GuardStep
SpecDiff == InitDiff /\ [][NextDiff]_vars

\* A call of operationsToUnifiedRows is pending; its rows then go to
\* sliceDiffWithContext.
InitRows ==
    /\ call = "rows"
    /\ pc = "ready"
    /\ inOps \in SeqsUpTo(RowOps, MaxRows)
    /\ rows = <<>>
    /\ contextLines = 0
    /\ visible = <<>>
    /\ OnlyRows

UnifiedRowsStep ==
    /\ call = "rows"
    /\ pc = "ready"
    /\ rows' = operationsToUnifiedRows(inOps)
    /\ pc' = "rows"
    /\ UNCHANGED <<call, inOps, contextLines, visible, notRows>>

SliceStep ==
    /\ call = "rows"
    /\ pc = "rows"
    /\ \E c \in ContextSizes :
          /\ contextLines' = c
          /\ visible' = sliceDiffWithContext(rows, c)
    /\ pc' = "done"
    /\ UNCHANGED <<call, inOps, rows, notRows>>

NextRows == UnifiedRowsStep \/ SliceStep
SpecRows == InitRows /\ [][NextRows]_vars

\* A call of sanitizePath is pending.
InitSanitize ==
    /\ call = "sanitizePath"
    /\ pc = "ready"
    /\ root \in Roots
    /\ path \in SeqsUpTo(Segments, MaxPath)
    /\ clean = [clean |-> <<>>, threw |-> FALSE]
    /\ again = [clean |-> <<>>, threw |-> FALSE]
    /\ container = JNull
    /\ segment = NumSeg(0)
    /\ child = FALSE
    /\ dotPath = <<>>
    /\ jsonPath = <<>>
    /\ OnlyPath

\* A call of hasChild on a container is pending.
InitHasChild ==
    /\ call = "hasChild"
    /\ pc = "ready"
    /\ container \in Containers
    /\ segment \in Segments
    /\ child = FALSE
    /\ dotPath = <<>>
    /\ jsonPath = <<>>
    /\ root = JNull
    /\ path = <<>>
    /\ clean = [clean |-> <<>>, threw |-> FALSE]
    /\ again = [clean |-> <<>>, threw |-> FALSE]
    /\ OnlyPath

\* A call of toDotPath and one of toJsonPath on the same path are pending.
InitFormat ==
    /\ call = "toDotPath"
    /\ pc = "ready"
    /\ path \in SeqsUpTo(FormatSegments, MaxPath)
    /\ root = JNull
    /\ clean = [clean |-> <<>>, threw |-> FALSE]
    /\ again = [clean |-> <<>>, threw |-> FALSE]
    /\ container = JNull
    /\ segment = NumSeg(0)
    /\ child = FALSE
    /\ dotPath = <<>>
    /\ jsonPath = <<>>
    /\ OnlyPath

InitPath == InitSanitize \/ InitHasChild \/ InitFormat

\* sanitizePath(path, root), and sanitizePath of what it returned.
SanitizeStep ==
    /\ call = "sanitizePath"
    /\ pc = "ready"
    /\ clean' = sanitizePath(path, root)
    /\ again' = sanitizePath(clean'.clean, root)
    /\ pc' = "done"
    /\ UNCHANGED <<call, root, path, container, segment, child, dotPath, jsonPath, notPath>>

HasChildStep ==
    /\ call = "hasChild"
    /\ pc = "ready"
    /\ child' = hasChild(container, segment)
    /\ pc' = "done"
    /\ UNCHANGED <<call, root, path, clean, again, container, segment, dotPath, jsonPath, notPath>>

\* toDotPath(path) and toJsonPath(path).
FormatStep ==
    /\ call = "toDotPath"
    /\ pc = "ready"
    /\ dotPath' = toDotPath(path)
    /\ jsonPath' = toJsonPath(path)
    /\ pc' = "done"
    /\ UNCHANGED <<call, root, path, clean, again, container, segment, child, notPath>>

NextPath == SanitizeStep \/ HasChildStep \/ FormatStep
SpecPath == InitPath /\ [][NextPath]_vars


\* A call of matchesQuery is pending.
InitMatches ==
    /\ call = "matchesQuery"
    /\ pc = "ready"
    /\ qKey \in QueryKeys
    /\ qValue \in QueryValues
    /\ query \in Queries
    /\ matched = FALSE
    /\ doc = JNull
    /\ tree = JNull
    /\ maxResults = 0
    /\ hits = <<>>
    /\ meta = <<>>
    /\ OnlySearch

MatchesStep ==
    /\ call = "matchesQuery"
    /\ pc = "ready"
    /\ matched' = matchesQuery(qKey, qValue, query)
    /\ pc' = "done"
    /\ UNCHANGED <<call, qKey, qValue, query, doc, tree, maxResults, hits, meta, notSearch>>

\* A call of searchTree on a parsed document is pending.
InitSearchTree ==
    /\ call = "searchTree"
    /\ pc = "ready"
    /\ doc \in Docs
    /\ tree = parsed(doc)
    /\ query \in SearchQueries
    /\ maxResults \in 0..MaxResults
    /\ hits = <<>>
    /\ meta = <<>>
    /\ qKey = NumSeg(0)
    /\ qValue = JNull
    /\ matched = FALSE
    /\ OnlySearch

SearchTreeStep ==
    /\ call = "searchTree"
    /\ pc = "ready"
    /\ hits' = searchTree(tree, query, maxResults)
    /\ pc' = "done"
    /\ UNCHANGED <<call, qKey, qValue, query, matched, doc, tree, maxResults, meta, notSearch>>

\* A call of entryMeta on the value of an explorer entry is pending.
InitEntryMeta ==
    /\ call = "entryMeta"
    /\ pc = "ready"
    /\ qKey = NumSeg(0)
    /\ qValue \in MetaValues
    /\ query = <<>>
    /\ matched = FALSE
    /\ doc = JNull
    /\ tree = JNull
    /\ maxResults = 0
    /\ hits = <<>>
    /\ meta = <<>>
    /\ OnlySearch

EntryMetaStep ==
    /\ call = "entryMeta"
    /\ pc = "ready"
    /\ meta' = entryMeta(qValue)
    /\ pc' = "done"
    /\ UNCHANGED <<call, qKey, qValue, query, matched, doc, tree, maxResults, hits, notSearch>>

InitSearch == InitMatches \/ InitSearchTree \/ InitEntryMeta
NextSearch == MatchesStep \/ SearchTreeStep \/ EntryMetaStep
SpecSearch == InitSearch /\ [][NextSearch]_vars


\* A call of parseJsonWithDiagnostics is pending, with what JSON.parse will
\* do on its text.
InitParse ==
    /\ call = "parseJsonWithDiagnostics"
    /\ pc = "ready"
    /\ jsonText \in ParseTexts
    /\ outcome \in Outcomes(jsonText)
    /\ parseResult = emptyParse
    /\ atOffset = 0
    /\ located = NoLocation
    /\ atLine = 1
    /\ atColumn = 1
    /\ lineColumnOffset = 0
    /\ OnlyParse

\* A call of toLineColumn on an offset of a text is pending.
InitLocate ==
    /\ call = "toLineColumn"
    /\ pc = "ready"
    /\ jsonText \in LocateTexts
    /\ atOffset \in 0..(Len(jsonText) - 1)
    /\ outcome = NoOutcome
    /\ parseResult = emptyParse
    /\ located = NoLocation
    /\ atLine = 1
    /\ atColumn = 1
    /\ lineColumnOffset = 0
    /\ OnlyParse

\* A call of toOffset on a line and a column of a text is pending.
InitOffset ==
    /\ call = "toOffset"
    /\ pc = "ready"
    /\ jsonText \in LocateTexts
    /\ atLine \in 1..MaxLine
    /\ atColumn \in 1..MaxColumn
    /\ atOffset = 0
    /\ lineColumnOffset = 0
    /\ outcome = NoOutcome
    /\ parseResult = emptyParse
    /\ located = NoLocation
    /\ OnlyParse

ParseStep ==
    /\ call = "parseJsonWithDiagnostics"
    /\ pc = "ready"
    /\ parseResult' = parseJsonWithDiagnostics(jsonText, outcome)
    /\ pc' = "done"
    /\ UNCHANGED <<call, jsonText, outcome, atOffset, located, atLine, atColumn,
                   lineColumnOffset, notParse>>

\* toLineColumn(text, position) and buildErrorContext on the line and
\* column it returned, as parseJsonWithDiagnostics chains them.
locate(str, found) ==
    [line |-> found.line, column |-> found.column]
    @@ buildErrorContext(str, found.line, found.column)

LocateStep ==
    /\ call = "toLineColumn"
    /\ pc = "ready"
    /\ located' = locate(jsonText, toLineColumn(jsonText, atOffset))
    /\ pc' = "done"
    /\ UNCHANGED <<call, jsonText, outcome, parseResult, atOffset, atLine, atColumn,
                   lineColumnOffset, notParse>>

\* toOffset on the line and column toLineColumn returned.
OffsetBackStep ==
    /\ call = "toLineColumn"
    /\ pc = "done"
    /\ lineColumnOffset' = toOffset(jsonText, located.line, located.column)
    /\ pc' = "back"
    /\ UNCHANGED <<call, jsonText, outcome, parseResult, atOffset, located, atLine,
                   atColumn, notParse>>

\* toOffset(text, line, column)
OffsetStep ==
    /\ call = "toOffset"
    /\ pc = "ready"
    /\ lineColumnOffset' = toOffset(jsonText, atLine, atColumn)
    /\ pc' = "offset"
    /\ UNCHANGED <<call, jsonText, outcome, parseResult, atOffset, located, atLine,
                   atColumn, notParse>>

\* toLineColumn on the offset toOffset returned.
LocateBackStep ==
    /\ call = "toOffset"
    /\ pc = "offset"
    /\ located' = locate(jsonText, toLineColumn(jsonText, lineColumnOffset))
    /\ pc' = "done"
    /\ UNCHANGED <<call, jsonText, outcome, parseResult, atOffset, atLine, atColumn,
                   lineColumnOffset, notParse>>

InitJson == InitParse \/ InitLocate \/ InitOffset
NextJson == ParseStep \/ LocateStep \/ OffsetBackStep \/ OffsetStep \/ LocateBackStep
SpecJson == InitJson /\ [][NextJson]_vars


\* The app after boot(); the auto-recompute box is ticked or not.
InitApp ==
    /\ call = "boot"
    /\ pc = "app"
    /\ \E ticked \in BOOLEAN : state = [bootState EXCEPT !.autoRecompute = ticked]
    /\ OnlyApp

\* The user edits the left text; call tells whether the right side was
\* re-synced from it.
LeftInputStep ==
    /\ pc = "app"
    /\ \E typed \in LeftTyped, cursor \in Cursors :
           /\ state' = onLeftInput(state, typed, cursor)
           /\ call' = IF trim(typed) # <<>> /\ appParse(typed).ok /\ ~state.rightDirty
                      THEN "leftSync" ELSE "leftInput"
    /\ UNCHANGED <<pc, notApp>>

LoadSampleStep ==
    /\ pc = "app"
    /\ \E cursor \in Cursors : state' = loadSampleIntoLeft(state, cursor)
    /\ call' = "loadSample"
    /\ UNCHANGED <<pc, notApp>>

\* An input event of the right editor: the user types in it, or the event
\* reaches the handler while the right side is locked.
RightInputStep ==
    /\ pc = "app"
    /\ rightEditable(state) \/ state.rightLocked
    /\ \E typed \in RightTyped, cursor \in Cursors : state' = onRightInput(state, typed, cursor)
    /\ call' = "rightInput"
    /\ UNCHANGED <<pc, notApp>>

\* Resync, while its button is enabled.
ResyncStep ==
    /\ pc = "app"
    /\ ~state.rightLocked /\ state.leftParse.ok
    /\ \E cursor \in Cursors : state' = resyncRightFromLeft(state, cursor)
    /\ call' = "resync"
    /\ UNCHANGED <<pc, notApp>>

\* A switch to another mode; call tells whether it re-synced the right side.
SetModeStep ==
    /\ pc = "app"
    /\ \E m \in Modes \ {state.mode}, cursor \in Cursors : state' = setMode(state, m, cursor)
    /\ call' = IF ~state.rightLocked /\ state.leftParse.ok /\ ~state.rightDirty
               THEN "modeSync" ELSE "setMode"
    /\ UNCHANGED <<pc, notApp>>

\* A click in the explorer, which is shown for a right value that parsed.
ExploreClickStep ==
    /\ pc = "app"
    /\ state.mode = "explore" /\ ~state.rightLocked /\ state.rightParse.ok
    /\ \E clicked \in ClickedPaths : state' = onExploreClick(state, clicked)
    /\ call' = "exploreClick"
    /\ UNCHANGED <<pc, notApp>>

\* The user types in the search box of the explorer, or clears it; the box
\* is enabled for a right value that parsed.
ExploreSearchStep ==
    /\ pc = "app"
    /\ state.mode = "explore" /\ ~state.rightLocked /\ state.rightParse.ok
    /\ \E typed \in ExploreQueries : state' = onExploreSearch(state, typed)
    /\ call' = "exploreSearch"
    /\ UNCHANGED <<pc, notApp>>

ClearSearchStep ==
    /\ pc = "app"
    /\ state.mode = "explore" /\ ~state.rightLocked /\ state.rightParse.ok
    /\ state' = onClearExploreSearch(state)
    /\ call' = "clearSearch"
    /\ UNCHANGED <<pc, notApp>>

\* A click on a fold button of the gutter of the JSON view: there is one
\* for every marker with children.
ToggleFoldStep ==
    /\ pc = "app"
    /\ state.mode = "json" /\ ~state.rightLocked /\ state.rightParse.ok
    /\ \E p \in foldablePaths(state.rightParse.value, <<>>), cursor \in Cursors :
           /\ \E k \in DOMAIN markerPaths(state.rightParse.value, <<>>, state.jsonFoldCollapsed) :
                  markerPaths(state.rightParse.value, <<>>, state.jsonFoldCollapsed)[k] = p
           /\ state' = toggleFold(state, p, cursor)
    /\ call' = "toggleFold"
    /\ UNCHANGED <<pc, notApp>>

\* The cursor moves in the right editor.
CursorStep ==
    /\ pc = "app"
    /\ ~state.rightLocked /\ state.mode \notin {"explore", "table"}
    /\ \E cursor \in Cursors : state' = updateCurrentPathFromRightCursor(state, cursor)
    /\ call' = "cursor"
    /\ UNCHANGED <<pc, notApp>>

RecomputeStep ==
    /\ pc = "app"
    /\ state.mode = "diff"
    /\ \E cursor \in Cursors : state' = recomputeDiff(state, TRUE, cursor)
    /\ call' = "recompute"
    /\ UNCHANGED <<pc, notApp>>

AutoRecomputeStep ==
    /\ pc = "app"
    /\ \E cursor \in Cursors : state' = onAutoRecomputeChange(state, cursor)
    /\ call' = "autoRecompute"
    /\ UNCHANGED <<pc, notApp>>

NextApp ==
    \/ LeftInputStep
    \/ LoadSampleStep
    \/ RightInputStep
    \/ ResyncStep
    \/ SetModeStep
    \/ ExploreClickStep
    \/ ExploreSearchStep
    \/ ClearSearchStep
    \/ ToggleFoldStep
    \/ CursorStep
    \/ RecomputeStep
    \/ AutoRecomputeStep
SpecApp == InitApp /\ [][NextApp]_vars

Init == InitDiff \/ InitRows \/ InitPath \/ InitSearch \/ InitJson \/ InitApp
Next == NextDiff \/ NextRows \/ NextPath \/ NextSearch \/ NextJson \/ NextApp
Spec == Init /\ [][Next]_vars

-----------------------------------------------------------------------------
(* Properties of the diff engine *)

DiffDone == call = "diffLines" /\ pc = "done"
ViaLcs == DiffDone /\ via = "lcs"
ViaQuick == DiffDone /\ via = "quickDiff"

RECURSIVE LeftTexts(_)
LeftTexts(o) ==
    IF o = <<>> THEN <<>>
    ELSE (IF Head(o).type \in {"equal", "del"} THEN <<Head(o).left>> ELSE <<>>)
         \o LeftTexts(Tail(o))

RECURSIVE RightTexts(_)
RightTexts(o) ==
    IF o = <<>> THEN <<>>
    ELSE (IF Head(o).type \in {"equal", "add"} THEN <<Head(o).right>> ELSE <<>>)
         \o RightTexts(Tail(o))

CountType(o, t) == Cardinality({k \in 1..Len(o) : o[k].type = t})
Elems(s) == {s[k] : k \in 1..Len(s)}

\* The subsequence of s at the indexes in I.
SubSeqAt(s, I) ==
    LET F[k \in 0..Len(s)] ==
            IF k = 0 THEN <<>>
            ELSE IF k \in I THEN Append(F[k - 1], s[k]) ELSE F[k - 1]
    IN F[Len(s)]

SubSeqs(s) == {SubSeqAt(s, I) : I \in SUBSET (1..Len(s))}

\* The length of a longest common subsequence, by enumeration.
LcsLen(l, r) ==
    LET common == SubSeqs(l) \cap SubSeqs(r)
    IN CHOOSE k \in 0..Len(l) :
          /\ \E c \in common : Len(c) = k
          /\ \A c \in common : Len(c) <= k

\* C1: on both branches the ops form a valid edit script: the left texts of
\* the equal and del ops, in order, are left; the right texts of the equal
\* and add ops, in order, are right; an equal op has the same text twice.
C1_ValidEditScript ==
    DiffDone =>
        /\ LeftTexts(ops) = left
        /\ RightTexts(ops) = right
        /\ \A k \in 1..Len(ops) : ops[k].type = "equal" => ops[k].left = ops[k].right

\* The fallback returned a script with all three kinds of op for arrays of
\* different lengths.
C1_Witness ==
    /\ ViaQuick
    /\ Len(left) # Len(right)
    /\ \A t \in {"equal", "del", "add"} : CountType(ops, t) > 0

\* C2: when n * m is at most the limit, the number of equal ops is the length
\* of a longest common subsequence, so there are n + m - 2*LCS del and add
\* ops and n + m - LCS ops in all, the least a valid edit script can have.
C2_MinimalScript ==
    (DiffDone /\ Len(left) * Len(right) <= limit) =>
        LET k == LcsLen(left, right)
        IN /\ CountType(ops, "equal") = k
           /\ CountType(ops, "del") + CountType(ops, "add") = Len(left) + Len(right) - 2 * k
           /\ Len(ops) = Len(left) + Len(right) - k

\* A common subsequence that is not a common prefix: the walk has to add
\* before it can match.
C2_Witness ==
    /\ DiffDone
    /\ limit = LcsCellLimit
    /\ left = <<"a", "b", "c">>
    /\ right = <<"x", "b", "c">>
    /\ ops = <<OpDel("a"), OpAdd("x"), OpEqual("b", "b"), OpEqual("c", "c")>>

\* C3: diffLines(x, x) is one equal op per line of x, in order, on both
\* branches.
C3_IdenticalAllEqual ==
    (DiffDone /\ left = right) =>
        ops = [k \in 1..Len(left) |-> OpEqual(left[k], left[k])]

\* Three identical lines compared by the fallback.
C3_Witness ==
    /\ ViaQuick
    /\ left = right
    /\ Len(ops) = 3

\* right is left with the line at index k replaced, the old line nowhere in
\* right and the new line nowhere in left.
ReplacedAt(l, r, k) ==
    /\ Len(l) = Len(r)
    /\ k \in 1..Len(l)
    /\ \A i \in 1..Len(l) : i # k => l[i] = r[i]
    /\ l[k] \notin Elems(r)
    /\ r[k] \notin Elems(l)

\* C4: on the LCS branch a single replaced line comes out as equal ops, then
\* del(old) immediately followed by add(new), then equal ops; and
\* diffLines([a,b,c],[a,x,c]) = [equal a, del b, add x, equal c].
C4_DeleteBiased ==
    /\ ViaLcs =>
          \A k \in 1..Len(left) :
              ReplacedAt(left, right, k) =>
                  ops = [i \in 1..(k - 1) |-> OpEqual(left[i], right[i])]
                        \o <<OpDel(left[k]), OpAdd(right[k])>>
                        \o [i \in 1..(Len(left) - k) |-> OpEqual(left[k + i], right[k + i])]
    /\ (ViaLcs /\ left = <<"a", "b", "c">> /\ right = <<"a", "x", "c">>) =>
          ops = <<OpEqual("a", "a"), OpDel("b"), OpAdd("x"), OpEqual("c", "c")>>

\* The example of the claim under the limit of the code.
C4_Witness ==
    /\ ViaLcs
    /\ limit = LcsCellLimit
    /\ left = <<"a", "b", "c">>
    /\ right = <<"a", "x", "c">>
    /\ ReplacedAt(left, right, 2)

\* What the claim says the fallback returns: per index one equal op, or the
\* del of the left line followed by the add of the right line.
Positional(l, r) ==
    Flatten([i \in 1..Max(Len(l), Len(r)) |->
        IF i <= Len(l) /\ i <= Len(r) /\ l[i] = r[i]
        THEN <<OpEqual(l[i], r[i])>>
        ELSE (IF i <= Len(l) THEN <<OpDel(l[i])>> ELSE <<>>)
             \o (IF i <= Len(r) THEN <<OpAdd(r[i])>> ELSE <<>>)])

\* C5: the fallback is used exactly when n * m is strictly greater than the
\* limit (3000000 in the code; a product equal to the limit runs LCS), and
\* its output is the positional script.
C5_FallbackGuard ==
    /\ DiffDone => (via = "quickDiff" <=> Len(left) * Len(right) >= limit + 1)
    /\ ViaQuick => ops = Positional(left, right)
    /\ (DiffDone /\ Len(left) * Len(right) <= limit) =>
          CountType(ops, "equal") = LcsLen(left, right)
    /\ (call = "guard" /\ pc = "done") => (gquick <=> gn * gm >= 3000001)

\* The fallback ran where LCS would have found a longer match.
C5_Witness ==
    /\ ViaQuick
    /\ Len(left) * Len(right) > limit
    /\ CountType(ops, "equal") < LcsLen(left, right)

\* The guard has been evaluated at exactly 3000000 cells.
GuardAtLimitReached == call = "guard" /\ pc = "done" /\ gn * gm = 3000000 /\ ~gquick


\* An add op is immediately followed by a del op somewhere in o.
AddThenDel(o) == \E k \in 1..(Len(o) - 1) : o[k].type = "add" /\ o[k + 1].type = "del"

\* C23: on the LCS branch of diffLines an add op is never immediately
\* followed by a del op, so inside every run of non-equal ops all the
\* deletes come before all the inserts.
C23_DeletesBeforeInserts == ViaLcs => ~AddThenDel(ops)

\* A run of two deletes and two inserts out of the LCS branch.
C23_Witness ==
    /\ ViaLcs
    /\ limit = LcsCellLimit
    /\ \E k \in 1..(Len(ops) - 3) :
           /\ ops[k].type = "del" /\ ops[k + 1].type = "del"
           /\ ops[k + 2].type = "add" /\ ops[k + 3].type = "add"

-----------------------------------------------------------------------------
(* Properties of the row functions *)

RowsMade == call = "rows" /\ pc \in {"rows", "done"}
SliceDone == call = "rows" /\ pc = "done"

KindOf(type) == IF type = "equal" THEN "context" ELSE type
OneTo(k) == [i \in 1..k |-> i]
NonNull(s) == SelectSeq(s, LAMBDA v : v # null)
IsRow(v) == v.kind # "gap"
IsGap(v) == v.kind = "gap"

\* C6: one row per op, in order, equal->context, del->del, add->add; the
\* non-null leftNo values are 1..(equal+del), the non-null rightNo values are
\* 1..(equal+add); a del row has rightNo = null, an add row leftNo = null, a
\* context row both numbers; [equal, del, add, equal] is numbered (1,1),
\* (2,null), (null,2), (3,3).
C6_RunningCounters ==
    RowsMade =>
        /\ Len(rows) = Len(inOps)
        /\ \A k \in 1..Len(rows) :
              /\ rows[k].kind = KindOf(inOps[k].type)
              /\ rows[k].kind = "del" => rows[k].rightNo = null /\ rows[k].leftNo # null
              /\ rows[k].kind = "add" => rows[k].leftNo = null /\ rows[k].rightNo # null
              /\ rows[k].kind = "context" => rows[k].leftNo # null /\ rows[k].rightNo # null
        /\ NonNull([k \in 1..Len(rows) |-> rows[k].leftNo])
              = OneTo(CountType(inOps, "equal") + CountType(inOps, "del"))
        /\ NonNull([k \in 1..Len(rows) |-> rows[k].rightNo])
              = OneTo(CountType(inOps, "equal") + CountType(inOps, "add"))
        /\ inOps = <<OpEqual("a", "a"), OpDel("b"), OpAdd("x"), OpEqual("a", "a")>> =>
              [k \in 1..4 |-> <<rows[k].leftNo, rows[k].rightNo>>]
                  = <<(<<1, 1>>), (<<2, null>>), (<<null, 2>>), (<<3, 3>>)>>

\* The example of the claim has been numbered.
C6_Witness ==
    /\ RowsMade
    /\ inOps = <<OpEqual("a", "a"), OpDel("b"), OpAdd("x"), OpEqual("a", "a")>>
    /\ rows[3] = RowAdd(2, "x")

\* Row i (1-based) is within c of a row that is not context.
NearChange(rs, c, i) ==
    \E j \in 1..Len(rs) : rs[j].kind # "context" /\ i - j <= c /\ j - i <= c

\* What the claim says is shown: the rows near a change, and one gap for each
\* maximal run of the other rows, placed where the run ends.
Folded(rs, c) ==
    Flatten([i \in 1..Len(rs) |->
        IF NearChange(rs, c, i) THEN <<rs[i]>>
        ELSE IF i = Len(rs) \/ NearChange(rs, c, i + 1)
             THEN LET before == {j \in 1..i : NearChange(rs, c, j)}
                      from == IF before = {} THEN 0
                              ELSE CHOOSE j \in before : \A b \in before : b <= j
                  IN <<Gap(i - from)>>
             ELSE <<>>])

HasChange(rs) == \E k \in 1..Len(rs) : rs[k].kind # "context"

\* C7: for rows with a change and contextLines >= 0 the output is, in order,
\* exactly the rows within contextLines of a change, each maximal run of the
\* others replaced by one gap counting the run: no two gaps are adjacent,
\* every gap omits at least 1, only context rows are hidden, and the rows
\* shown plus the rows omitted are all the rows.  For
\* [ctx,ctx,del,ctx,ctx,ctx,add,ctx] and contextLines = 0 the output is
\* gap(2), del, gap(3), add, gap(1).
C7_ContextFolding ==
    (SliceDone /\ HasChange(rows) /\ contextLines >= 0) =>
        /\ visible = Folded(rows, contextLines)
        /\ SelectSeq(visible, IsRow)
              = SelectSeq(rows, LAMBDA r : \E i \in 1..Len(rows) :
                                              rows[i] = r /\ NearChange(rows, contextLines, i))
        /\ \A k \in 1..Len(visible) : IsGap(visible[k]) => visible[k].omitted >= 1
        /\ \A k \in 1..(Len(visible) - 1) : ~(IsGap(visible[k]) /\ IsGap(visible[k + 1]))
        /\ \A k \in 1..Len(rows) : rows[k].kind # "context" =>
              \E v \in 1..Len(visible) : visible[v] = rows[k]
        /\ Len(SelectSeq(visible, IsRow))
              + SumSeq([k \in 1..Len(visible) |->
                           IF IsGap(visible[k]) THEN visible[k].omitted ELSE 0])
              = Len(rows)
        /\ (contextLines = 0
            /\ [k \in 1..Len(rows) |-> rows[k].kind]
                 = <<"context", "context", "del", "context", "context", "context", "add", "context">>) =>
              visible = <<Gap(2), rows[3], Gap(3), rows[7], Gap(1)>>

\* The example of the claim has been folded.
C7_Witness ==
    /\ SliceDone
    /\ contextLines = 0
    /\ [k \in 1..Len(rows) |-> rows[k].kind]
          = <<"context", "context", "del", "context", "context", "context", "add", "context">>
    /\ Len(visible) = 5

\* C8: rows without a change (the empty input included) fold to the empty
\* sequence for every contextLines, never to one gap over all rows.
C8_NoChangeNoRows ==
    (SliceDone /\ ~HasChange(rows)) => visible = <<>>

\* Three context rows and nothing else have been folded.
C8_Witness ==
    /\ SliceDone
    /\ Len(rows) = 3
    /\ ~HasChange(rows)
    /\ contextLines = 1

-----------------------------------------------------------------------------
(* Properties of the path functions *)

SanitizeDone == call = "sanitizePath" /\ pc = "done"
HasChildDone == call = "hasChild" /\ pc = "done"

IsPrefix(a, b) == Len(a) <= Len(b) /\ \A k \in 1..Len(a) : a[k] = b[k]

\* The node a path of own entries leads to, read element by element.
RECURSIVE NodeAt(_, _)
NodeAt(value, p) ==
    IF p = <<>> THEN value
    ELSE IF value.type = "array"
         THEN NodeAt(value.items[Head(p).n + 1], Tail(p))
         ELSE NodeAt(value.items[CHOOSE k \in 1..Len(value.keys) :
                                     value.keys[k] = toPropertyKey(Head(p))], Tail(p))

\* Every segment of p resolves when p is walked from value.
RECURSIVE Resolves(_, _)
Resolves(value, p) ==
    \/ p = <<>>
    \/ /\ isContainer(value)
       /\ hasChild(value, Head(p))
       /\ Resolves(NodeAt(value, <<Head(p)>>), Tail(p))

\* C9: sanitizePath(p, root) never throws; it is a prefix of p; each of its
\* segments resolves from root; it is the longest such prefix (it is p, or the
\* next segment of p does not resolve); and sanitizing it again changes
\* nothing.
C9_LongestValidPrefix ==
    SanitizeDone =>
        /\ ~clean.threw
        /\ IsPrefix(clean.clean, path)
        /\ Resolves(root, clean.clean)
        /\ \/ clean.clean = path
           \/ ~Resolves(root, SubSeq(path, 1, Len(clean.clean) + 1))
        /\ ~again.threw
        /\ again.clean = clean.clean

\* A path was cut where its cursor reached null, two segments in.
C9_Witness ==
    /\ SanitizeDone
    /\ Len(path) = 3
    /\ Len(clean.clean) = 2
    /\ NodeAt(root, clean.clean) = JNull

\* C10: on an array hasChild is true iff the segment is a number that is an
\* integer with 0 <= n < length (the strings "0" and "length" never resolve);
\* on an object iff the segment names an own key (an inherited name such as
\* "toString" does not resolve unless the object has it as an own key).
C10_HasChild ==
    HasChildDone =>
        /\ container.type = "array" =>
              /\ child <=> /\ segment.kind = "number"
                           /\ ~segment.half
                           /\ segment.n \in 0..(Len(container.items) - 1)
              /\ segment \in {StrSeg(S_0), StrSeg(S_length)} => ~child
        /\ container.type = "object" =>
              /\ child <=> toPropertyKey(segment) \in Elems(container.keys)
              /\ (segment = StrSeg(S_toString) /\ S_toString \notin Elems(container.keys)) => ~child

\* The string "0" was looked up in an array that has an element 0.
C10_Witness ==
    /\ HasChildDone
    /\ ~child
    /\ container.type = "array"
    /\ Len(container.items) = 2
    /\ segment = StrSeg(S_0)


-----------------------------------------------------------------------------
(* Properties of the search functions *)

MatchesDone == call = "matchesQuery" /\ pc = "done"

\* needle occurs in str as a run of consecutive characters.
Occurs(needle, str) ==
    \E from \in 0..(Len(str) - Len(needle)) :
        \A k \in 1..Len(needle) : str[from + k] = needle[k]

\* The property name of q is in the lower-cased name of the key.
KeyHolds(key, q) == Occurs(toLowerCase(q), toLowerCase(toPropertyKey(key)))

\* C11: matchesQuery is false for the empty query; otherwise it is true iff
\* the lower-cased String(key) contains the lower-cased query, or the value is
\* no array and no object and its lower-cased String form contains it; the
\* content of a container never makes a match.
C11_MatchesQuery ==
    MatchesDone =>
        /\ query = <<>> => ~matched
        /\ query # <<>> =>
              (matched <=>
                  \/ KeyHolds(qKey, query)
                  \/ /\ qValue.type \notin {"array", "object"}
                     /\ Occurs(toLowerCase(query), toLowerCase(stringOf(qValue))))
        /\ (qValue.type \in {"array", "object"} /\ ~KeyHolds(qKey, query)) => ~matched

\* An array holding "ab" was asked for "a" under a key without it, and did
\* not match.
C11_Witness ==
    /\ MatchesDone
    /\ qValue.type = "array"
    /\ Occurs(toLowerCase(query), toLowerCase(stringOf(qValue)))
    /\ query = <<"a">>
    /\ qKey = NumSeg(0)
    /\ ~matched


SearchDone == call = "searchTree" /\ pc = "done"

\* The segment of the k-th entry of a container.
EntrySegment(value, k) ==
    IF value.type = "array" THEN NumSeg(k - 1) ELSE StrSeg(value.keys[k])

\* The paths of all entries below value in depth-first pre-order, entries in
\* the order the container lists them, each prefixed by p.
RECURSIVE EntryPaths(_, _)
EntryPaths(value, p) ==
    IF value.type \notin {"array", "object"} THEN <<>>
    ELSE Flatten([k \in 1..Len(value.items) |->
             <<Append(p, EntrySegment(value, k))>>
             \o EntryPaths(value.items[k], Append(p, EntrySegment(value, k)))])

\* All node paths of value, the root first.
NodePaths(value) == <<<<>>>> \o EntryPaths(value, <<>>)

PositionIn(paths, p) == CHOOSE k \in 1..Len(paths) : paths[k] = p

StartsWith(str, prefix) ==
    Len(prefix) <= Len(str) /\ SubSeq(str, 1, Len(prefix)) = prefix

IsKeyHit(h) == StartsWith(h.preview, <<"k", "e", "y", " ", "\"">>)

\* hs follows the order of paths; two hits on one path are the key hit and
\* then the value hit.
InPreOrder(hs, paths) ==
    \A i, j \in 1..Len(hs) :
        i < j =>
            /\ \E k \in 1..Len(paths) : paths[k] = hs[i].path
            /\ \E k \in 1..Len(paths) : paths[k] = hs[j].path
            /\ PositionIn(paths, hs[i].path) <= PositionIn(paths, hs[j].path)
            /\ hs[i].path = hs[j].path => IsKeyHit(hs[i]) /\ ~IsKeyHit(hs[j])

NeedleDoc == DocObject(<<<<"a">>>>, <<DocObject(<<<<"b">>>>, <<JString(S_needlefoo)>>)>>)

CapAndPathsHold ==
    /\ Len(hits) <= maxResults
    /\ \A k \in 1..Len(hits) : Resolves(tree, hits[k].path)
    /\ (doc = NeedleDoc /\ query = S_needle /\ maxResults >= 1) =>
          /\ Len(hits) = 1
          /\ hits[1].path = <<StrSeg(<<"a">>), StrSeg(<<"b">>)>>
          /\ StartsWith(hits[1].preview, <<"s", "t", "r", "i", "n", "g", " ">>)

HitAt(hs, p) == \E k \in 1..Len(hs) : hs[k].path = p

\* The cap did not bind: the walk never found the list full.
CapNotBinding == Len(hits) < maxResults

\* Every entry of every container of the tree has a hit iff matchesQuery
\* holds of its segment and value.
SameRuleAtEntries ==
    \A k \in 1..Len(EntryPaths(tree, <<>>)) :
        LET p == EntryPaths(tree, <<>>)[k]
        IN HitAt(hits, p) <=> matchesQuery(p[Len(p)], NodeAt(tree, p), query)

\* C13: with a cap that does not bind, searchTree has a hit ending at an
\* entry (object key or array index) iff matchesQuery is true of the entry's
\* segment, value and the query; the empty query yields no hits.
C13_SameRuleAsMatchesQuery ==
    (SearchDone /\ CapNotBinding) =>
        /\ SameRuleAtEntries
        /\ query = <<>> => hits = <<>>


MetaDone == call = "entryMeta" /\ pc = "done"

EndsWith(str, suffix) ==
    Len(suffix) <= Len(str)
    /\ SubSeq(str, Len(str) - Len(suffix) + 1, Len(str)) = suffix

\* The part of a preview after the type tag of value and the space.
AfterTag(preview, value) ==
    SubSeq(preview, Len(valueType(value)) + 2, Len(preview))

\* shown is text in full when text fits in length characters, and otherwise
\* ends in an ellipsis and is no longer than length.
FitsDisplay(shown, text, length) ==
    /\ Len(text) <= length => shown = text
    /\ Len(text) > length => EndsWith(shown, S_dots) /\ Len(shown) <= length

\* C14: the value text of a search-hit preview is the stringified value in
\* full when it has at most 26 characters, and otherwise a truncation ending
\* in an ellipsis of at most 26 characters in all (22 for entryMeta); a key
\* hit's preview is key "<name>" with the whole key.
C14_PreviewWithinDisplayLength ==
    /\ SearchDone =>
          \A k \in 1..Len(hits) :
              LET h == hits[k]
                  value == NodeAt(tree, h.path)
              IN IF IsKeyHit(h)
                 THEN h.preview = <<"k", "e", "y", " ", "\"">> \o h.path[Len(h.path)].s \o <<"\"">>
                 ELSE FitsDisplay(AfterTag(h.preview, value), stringOf(value), PreviewLength)
    /\ (MetaDone /\ ~isContainer(qValue)) =>
          FitsDisplay(AfterTag(meta, qValue), stringOf(qValue), MetaLength)



\* The uncapped search: every hit of value under path p for the lowered
\* query, in depth-first pre-order, written without a cap or a hit list.
RECURSIVE AllHits(_, _, _)
AllHits(value, p, lower) ==
    IF isArray(value)
    THEN Flatten([k \in 1..Len(value.items) |->
                     AllHits(value.items[k], Append(p, NumSeg(k - 1)), lower)])
    ELSE IF isPlainObject(value)
    THEN Flatten([k \in 1..Len(value.keys) |->
                     (IF includes(toLowerCase(value.keys[k]), lower)
                      THEN <<Hit(Append(p, StrSeg(value.keys[k])), keyPreview(value.keys[k]))>>
                      ELSE <<>>)
                     \o AllHits(value.items[k], Append(p, StrSeg(value.keys[k])), lower)])
    ELSE IF includes(toLowerCase(stringOf(value)), lower)
         THEN <<Hit(p, valuePreview(value))>>
         ELSE <<>>

Uncapped == AllHits(tree, <<>>, toLowerCase(query))

\* C29: for a non-empty query the result of searchTree is exactly the first
\* min(maxResults, total) hits of the uncapped search, in the same order.
C29_CapOnlyTruncates ==
    (SearchDone /\ query # <<>>) =>
        hits = SubSeq(Uncapped, 1, Min(maxResults, Len(Uncapped)))

\* A search the cap cuts short: more hits exist than the cap lets through.
C29_Witness ==
    /\ SearchDone
    /\ query # <<>>
    /\ maxResults >= 2
    /\ Len(Uncapped) > maxResults
    /\ Len(hits) = maxResults

-----------------------------------------------------------------------------
(* Properties of the path formatters *)

FormatDone == call = "toDotPath" /\ pc = "done"

Drop(str, n) == SubSeq(str, n + 1, Len(str))

\* str matches ^[A-Za-z_$][A-Za-z0-9_$]*$.
MatchesIdentifierPattern(str) ==
    LET letters == Elems(UpperLetters) \cup Elems(LowerLetters)
        first == letters \cup {"_", "$"}
        later == first \cup Elems(Digits)
    IN /\ str # <<>>
       /\ str[1] \in first
       /\ \A k \in 2..Len(str) : str[k] \in later

\* The string a JSON string body denotes, read from its k-th character on:
\* \" is a quote, \\ a backslash, \n a line feed; a bare quote or line feed,
\* or a backslash before anything else, makes it no string body.
RECURSIVE DecodeFrom(_, _)
DecodeFrom(body, k) ==
    IF k > Len(body) THEN [ok |-> TRUE, s |-> <<>>]
    ELSE IF body[k] = "\\"
         THEN IF k + 1 > Len(body) \/ body[k + 1] \notin {"\"", "\\", "n"}
              THEN [ok |-> FALSE, s |-> <<>>]
              ELSE LET rest == DecodeFrom(body, k + 2)
                       c == IF body[k + 1] = "n" THEN "\n" ELSE body[k + 1]
                   IN [ok |-> rest.ok, s |-> <<c>> \o rest.s]
         ELSE IF body[k] \in {"\"", "\n"}
              THEN [ok |-> FALSE, s |-> <<>>]
              ELSE LET rest == DecodeFrom(body, k + 1)
                   IN [ok |-> rest.ok, s |-> <<body[k]>> \o rest.s]

\* lit is a JSON string literal denoting str.
IsLiteralOf(lit, str) ==
    /\ Len(lit) >= 2
    /\ lit[1] = "\""
    /\ lit[Len(lit)] = "\""
    /\ DecodeFrom(SubSeq(lit, 2, Len(lit) - 1), 1) = [ok |-> TRUE, s |-> str]

\* out is the renderings of the segments of p one after the other: [n] for
\* a number, .name for a name matching the identifier pattern, and a
\* bracketed JSON string literal for any other string.
RECURSIVE Renders(_, _)
Renders(out, p) ==
    IF p = <<>> THEN out = <<>>
    ELSE LET seg == Head(p)
         IN IF seg.kind = "number"
            THEN LET t == <<"[">> \o natToString(seg.n) \o <<"]">>
                 IN StartsWith(out, t) /\ Renders(Drop(out, Len(t)), Tail(p))
            ELSE IF MatchesIdentifierPattern(seg.s)
                 THEN StartsWith(out, <<".">> \o seg.s)
                      /\ Renders(Drop(out, Len(seg.s) + 1), Tail(p))
                 ELSE \E len \in 1..Len(out) :
                          /\ out[1] = "["
                          /\ out[len] = "]"
                          /\ IsLiteralOf(SubSeq(out, 2, len - 1), seg.s)
                          /\ Renders(Drop(out, len), Tail(p))

ExamplePath == <<StrSeg(<<"a">>), NumSeg(0), StrSeg(<<"b", " ", "c">>)>>

\* C15: toDotPath(p) is "root" and toJsonPath(p) is "$", each followed by the
\* renderings of the segments in order: [n] for a number, .name for a string
\* matching ^[A-Za-z_$][A-Za-z0-9_$]*$, ["..."] JSON-quoted for any other
\* string, the empty and the digit-only ones included; the two differ in
\* the prefix only; ["a", 0, "b c"] gives root.a[0]["b c"] and $.a[0]["b c"].
C15_PathFormats ==
    FormatDone =>
        /\ StartsWith(dotPath, S_root)
        /\ StartsWith(jsonPath, S_dollar)
        /\ Renders(Drop(dotPath, Len(S_root)), path)
        /\ Drop(jsonPath, Len(S_dollar)) = Drop(dotPath, Len(S_root))
        /\ path = ExamplePath =>
              /\ dotPath = <<"r", "o", "o", "t", ".", "a", "[", "0", "]", "[", "\"", "b", " ", "c", "\"", "]">>
              /\ jsonPath = <<"$", ".", "a", "[", "0", "]", "[", "\"", "b", " ", "c", "\"", "]">>

\* The empty key, a digit-only key and a key with a quote were formatted,
\* each in brackets.
C15_Witness ==
    /\ FormatDone
    /\ path = <<StrSeg(<<>>), StrSeg(<<"0">>), StrSeg(<<"a", "\"", "]">>)>>
    /\ dotPath = <<"r", "o", "o", "t", "[", "\"", "\"", "]", "[", "\"", "0", "\"", "]", "[", "\"", "a", "\\", "\"", "]", "\"", "]">>
    /\ jsonPath = <<"$", "[", "\"", "\"", "]", "[", "\"", "0", "\"", "]", "[", "\"", "a", "\\", "\"", "]", "\"", "]">>


-----------------------------------------------------------------------------
(* Properties of the JSON diagnostics *)

ParseDone == call = "parseJsonWithDiagnostics" /\ pc = "done"

\* The text is empty or has whitespace only.
Blank(str) == \A k \in 1..Len(str) : str[k] \in {" ", "\t", "\n", "\r"}

Hints ==
    {TrailingCommaHint, DoubleQuotesHint, QuoteKeysHint, NoCommentsHint,
     TruncatedHint, MissingCommaHint, GenericHint}

IsCharSeq(x) == DOMAIN x = 1..Len(x)

IsEmptyResult(r) ==
    r.empty /\ ~r.ok /\ r.value = JNull /\ r.error = nullError

IsValidResult(r) ==
    r.ok /\ ~r.empty /\ r.error = nullError

IsInvalidResult(r) ==
    /\ ~r.ok
    /\ ~r.empty
    /\ r.error # nullError
    /\ DOMAIN r.error =
          {"message", "position", "line", "column", "suggestion", "lineText", "caretLine"}
    /\ IsCharSeq(r.error.message) /\ r.error.message # <<>>
    /\ r.error.position \in Nat
    /\ r.error.line \in Nat \ {0}
    /\ r.error.column \in Nat \ {0}
    /\ r.error.suggestion \in Hints
    /\ IsCharSeq(r.error.lineText)
    /\ IsCharSeq(r.error.caretLine) /\ r.error.caretLine # <<>>

\* C16: parseJsonWithDiagnostics returns exactly one of three outcomes:
\* Empty (empty, not ok, value null, no error) iff the text is empty or
\* whitespace-only; Valid (ok, not empty, no error) iff JSON.parse succeeds;
\* Invalid (not ok, not empty, an error with its seven fields set) otherwise.
C16_ThreeOutcomes ==
    ParseDone =>
        /\ IsEmptyResult(parseResult) <=> Blank(jsonText)
        /\ IsValidResult(parseResult) <=> outcome.ok
        /\ IsInvalidResult(parseResult) <=> (~Blank(jsonText) /\ ~outcome.ok)
        /\ IsEmptyResult(parseResult) \/ IsValidResult(parseResult) \/ IsInvalidResult(parseResult)
        /\ outcome.ok => parseResult.value = outcome.value

\* A whitespace-only text came back Empty although JSON.parse rejects it.
C16_Witness ==
    /\ ParseDone
    /\ jsonText = <<" ", "\n", "\t">>
    /\ ~outcome.ok
    /\ IsEmptyResult(parseResult)


InvalidDone == ParseDone /\ ~Blank(jsonText) /\ ~outcome.ok

\* word stands at position i of str, in any case.
WordAt(str, i, word) ==
    /\ i + Len(word) - 1 <= Len(str)
    /\ toLowerCase(SubSeq(str, i, i + Len(word) - 1)) = word

IsSpace(c) == c \in {" ", "\t", "\n", "\r"}

\* The first position from i on that holds no whitespace.
AfterSpaces(str, i) ==
    CHOOSE j \in i..(Len(str) + 1) :
        /\ \A k \in i..(j - 1) : IsSpace(str[k])
        /\ j <= Len(str) => ~IsSpace(str[j])

\* The position after the digits that start at j.
AfterDigits(str, j) ==
    CHOOSE e \in j..(Len(str) + 1) :
        /\ \A k \in j..(e - 1) : IsDigit(str[k])
        /\ e <= Len(str) => ~IsDigit(str[e])

\* From position i on there is whitespace and then a number.
NumberAfterSpaces(str, i) ==
    /\ AfterSpaces(str, i) > i
    /\ AfterDigits(str, AfterSpaces(str, i)) > AfterSpaces(str, i)

NumberAt(str, i) ==
    stringToNat(SubSeq(str, AfterSpaces(str, i), AfterDigits(str, AfterSpaces(str, i)) - 1))

\* Where the message says "position N".
PositionSays(msg) ==
    {i \in 1..Len(msg) : WordAt(msg, i, <<"p", "o", "s", "i", "t", "i", "o", "n">>) /\ NumberAfterSpaces(msg, i + 8)}

\* Where the message says "line L column C"; the word column stands at
\* ColumnWordAt.
ColumnWordAt(msg, i) == AfterSpaces(msg, AfterDigits(msg, AfterSpaces(msg, i + 4)))
LineColumnSays(msg) ==
    {i \in 1..Len(msg) :
        /\ WordAt(msg, i, <<"l", "i", "n", "e">>)
        /\ NumberAfterSpaces(msg, i + 4)
        /\ ColumnWordAt(msg, i) > AfterDigits(msg, AfterSpaces(msg, i + 4))
        /\ WordAt(msg, ColumnWordAt(msg, i), <<"c", "o", "l", "u", "m", "n">>)
        /\ NumberAfterSpaces(msg, ColumnWordAt(msg, i) + 6)}

First(S) == CHOOSE x \in S : \A y \in S : x <= y

\* The lengths of the lines of str, a line ending before \n or \r\n.
LineBreaks(str) == {k \in 1..Len(str) : str[k] = "\n"}
LineCount(str) == Cardinality(LineBreaks(str)) + 1
LineStart(str, l) ==
    IF l = 1 THEN 1
    ELSE 1 + (CHOOSE k \in LineBreaks(str) :
                 Cardinality({b \in LineBreaks(str) : b < k}) = l - 2)
LineStop(str, l) ==
    LET next == IF l = LineCount(str) THEN Len(str) + 1 ELSE LineStart(str, l + 1) - 1
    IN IF next - 1 >= LineStart(str, l) /\ next <= Len(str) /\ str[next - 1] = "\r"
       THEN next - 1 ELSE next
LineLength(str, l) == LineStop(str, l) - LineStart(str, l)

Clamped(x, str) == Max(0, Min(Len(str) - 1, x))

\* C17: for a non-blank text and a parser message, error.position is in
\* [0, text.length - 1]: N clamped when the message has "position N"; else,
\* when it has "line L column C", the clamped sum of length + 1 over the
\* first L - 1 lines plus C - 1; else text.length - 1. "position" wins when
\* the message has both.
C17_ErrorPosition ==
    InvalidDone =>
        LET msg == outcome.message
            position == parseResult.error.position
        IN /\ position \in 0..(Len(jsonText) - 1)
           /\ IF PositionSays(msg) # {}
              THEN position = Clamped(NumberAt(msg, First(PositionSays(msg)) + 8), jsonText)
              ELSE IF LineColumnSays(msg) # {}
              THEN LET i == First(LineColumnSays(msg))
                       l == NumberAt(msg, i + 4)
                       c == NumberAt(msg, ColumnWordAt(msg, i) + 6)
                       before == Min(l - 1, LineCount(jsonText))
                   IN position =
                          Clamped(SumSeq([k \in 1..before |-> LineLength(jsonText, k) + 1])
                                  + c - 1, jsonText)
              ELSE position = Len(jsonText) - 1

\* A message with both forms, "position 7 (line 3 column 1)", on a text where
\* the two differ: the position is 7, not the 9 of line 3 column 1.
C17_Witness ==
    /\ InvalidDone
    /\ jsonText = T_crlf
    /\ PositionSays(outcome.message) # {}
    /\ LineColumnSays(outcome.message) # {}
    /\ NumberAt(outcome.message, First(PositionSays(outcome.message)) + 8) = 7
    /\ parseResult.error.position = 7
    /\ toOffset(jsonText, 3, 1) = 9


LocateDone == call = "toLineColumn" /\ pc = "done"

\* The line the offset lies on: 1 plus the line breaks before it.
LineOfOffset(str, at) == 1 + Cardinality({k \in LineBreaks(str) : k - 1 < at})

\* C18: for a text with \n or \r\n line breaks and an offset inside it, line
\* is 1 plus the number of line breaks before the offset, column is 1 plus
\* the distance from the start of that line to the offset, lineText is that
\* whole line, and caretLine is column - 1 spaces and a ^, never more than
\* one column past the end of lineText.
C18_ExactLocation ==
    LocateDone =>
        LET l == LineOfOffset(jsonText, atOffset)
        IN /\ located.line = l
           /\ located.column = 1 + (atOffset + 1 - LineStart(jsonText, l))
           /\ located.lineText = SubSeq(jsonText, LineStart(jsonText, l), LineStop(jsonText, l) - 1)
           /\ located.caretLine = [k \in 1..(located.column - 1) |-> " "] \o <<"^">>
           /\ located.column <= Len(located.lineText) + 1


\* The characters of str within 40 before the offset and 40 from it on.
Window(str, at) == SubSeq(str, Max(1, at - 39), Min(Len(str), at + 40))

SpacesBetween(w, i, j) == \A k \in (i + 1)..(j - 1) : IsSpace(w[k])

\* A comma, then a closing brace or bracket, with only whitespace between.
HasTrailingComma(w) ==
    \E i, j \in 1..Len(w) :
        i < j /\ w[i] = "," /\ w[j] \in {"}", "]"} /\ SpacesBetween(w, i, j)

\* A single-quoted run right before or right after a colon.
HasSingleQuoted(w) ==
    \E i, j \in 1..Len(w) :
        /\ i < j /\ w[i] = "'" /\ w[j] = "'"
        /\ \A k \in (i + 1)..(j - 1) : w[k] # "'"
        /\ \/ \E c \in (j + 1)..Len(w) : w[c] = ":" /\ SpacesBetween(w, j, c)
           \/ \E c \in 1..(i - 1) : w[c] = ":" /\ SpacesBetween(w, c, i)

\* After { or , a bare name and a colon.
HasBareKey(w) ==
    \E h, i, j, c \in 1..Len(w) :
        /\ h < i /\ i <= j /\ j < c
        /\ w[h] \in {"{", ","} /\ SpacesBetween(w, h, i)
        /\ IsUpper(w[i]) \/ IsLower(w[i]) \/ w[i] \in {"_", "$"}
        /\ \A k \in (i + 1)..j :
               IsUpper(w[k]) \/ IsLower(w[k]) \/ IsDigit(w[k]) \/ w[k] \in {"_", "$", "-"}
        /\ SpacesBetween(w, j, c) /\ w[c] = ":"

HasComment(w) == Occurs(<<"/", "*">>, w) \/ Occurs(<<"/", "/">>, w)

\* A double quote right after a double quote, a digit or true.
HasMissingComma(w) ==
    \E i, j \in 1..Len(w) :
        /\ i < j /\ w[j] = "\"" /\ SpacesBetween(w, i, j)
        /\ \/ w[i] = "\""
           \/ IsDigit(w[i])
           \/ i >= 4 /\ SubSeq(w, i - 3, i) = <<"t", "r", "u", "e">>

NamesCloser(msg) ==
    Occurs(<<"U", "n", "e", "x", "p", "e", "c", "t", "e", "d", " ", "t", "o", "k", "e", "n", " ", "}">>, msg) \/ Occurs(<<"U", "n", "e", "x", "p", "e", "c", "t", "e", "d", " ", "t", "o", "k", "e", "n", " ", "]">>, msg)
NamesQuote(msg) == Occurs(<<"U", "n", "e", "x", "p", "e", "c", "t", "e", "d", " ", "t", "o", "k", "e", "n", " ", "'">>, msg)
SaysTruncated(msg) == Occurs(<<"u", "n", "e", "x", "p", "e", "c", "t", "e", "d", " ", "e", "n", "d", " ", "o", "f", " ", "j", "s", "o", "n", " ", "i", "n", "p", "u", "t">>, toLowerCase(msg))

\* C19: the suggestion is that of the first pattern that holds, in the order
\* trailing-comma, use-double-quotes, quote-object-keys, no-comments,
\* truncated-document, missing-comma, generic, tested on the window of 40
\* characters each side of the offset and on the message. {"a":1,} gets the
\* trailing-comma hint, {'a':1} the double-quotes hint and {a:1} the
\* quote-keys hint under every message that names no Unexpected token of an
\* earlier category.
C19_FirstMatchWins ==
    InvalidDone =>
        LET msg == outcome.message
            w == Window(jsonText, parseResult.error.position)
            hint == parseResult.error.suggestion
        IN /\ hint =
                 IF HasTrailingComma(w) \/ NamesCloser(msg) THEN TrailingCommaHint
                 ELSE IF HasSingleQuoted(w) \/ NamesQuote(msg) THEN DoubleQuotesHint
                 ELSE IF HasBareKey(w) THEN QuoteKeysHint
                 ELSE IF HasComment(w) THEN NoCommentsHint
                 ELSE IF SaysTruncated(msg) THEN TruncatedHint
                 ELSE IF HasMissingComma(w) THEN MissingCommaHint
                 ELSE GenericHint
           /\ Len(jsonText) <= 40 => w = jsonText
           /\ jsonText = T_trailingComma => hint = TrailingCommaHint
           /\ (jsonText = T_singleQuotes /\ ~NamesCloser(msg)) => hint = DoubleQuotesHint
           /\ (jsonText = T_bareKey /\ ~NamesCloser(msg) /\ ~NamesQuote(msg)) => hint = QuoteKeysHint

\* A text with a bare key and a single-quoted value got the double-quotes
\* hint, the earlier of the two that apply.
C19_Witness ==
    /\ InvalidDone
    /\ jsonText = <<"{", "a", ":", "'", "b", "'", "}">>
    /\ HasBareKey(jsonText)
    /\ HasSingleQuoted(jsonText)
    /\ ~NamesQuote(outcome.message)
    /\ ~NamesCloser(outcome.message)
    /\ parseResult.error.suggestion = DoubleQuotesHint



OffsetDone == call = "toOffset" /\ pc = "done"
BackDone == call = "toLineColumn" /\ pc = "back"

\* The text has \n line breaks only.
LfOnly(str) == "\r" \notin Elems(str)

\* The offset of column c of line l, counted from 0.
OffsetOf(str, l, c) == LineStart(str, l) - 1 + (c - 1)

\* Line l and column c name a position of the text: a column of the line, or
\* the one just after it, at an offset inside the text.
NamesPosition(str, l, c) ==
    /\ l \in 1..LineCount(str)
    /\ c \in 1..(LineLength(str, l) + 1)
    /\ OffsetOf(str, l, c) <= Len(str) - 1

\* C30: on a text with \n line breaks only, toLineColumn gives back every
\* line and column that name a position inside the text when applied to
\* their toOffset, and toOffset gives back every offset inside the text when
\* applied to its toLineColumn.
C30_RoundTrip ==
    /\ (OffsetDone /\ LfOnly(jsonText) /\ NamesPosition(jsonText, atLine, atColumn)) =>
           /\ lineColumnOffset = OffsetOf(jsonText, atLine, atColumn)
           /\ located.line = atLine
           /\ located.column = atColumn
    /\ (BackDone /\ LfOnly(jsonText)) => lineColumnOffset = atOffset

\* The line break that ends line 2, named as the column after the line's
\* last character, comes back as the same line and column.
C30_Witness ==
    /\ OffsetDone
    /\ LfOnly(jsonText)
    /\ NamesPosition(jsonText, atLine, atColumn)
    /\ atLine = 2
    /\ atColumn = LineLength(jsonText, 2) + 1
    /\ atColumn > 1
    /\ located.line = 2
    /\ located.column = atColumn

-----------------------------------------------------------------------------
(* Properties of the app *)

\* The two stored paths fit the right value: each resolves in it when it
\* parsed, and both are empty when it did not.
PathsFit(st) ==
    IF st.rightParse.ok
    THEN /\ Resolves(st.rightParse.value, st.explorePath)
         /\ Resolves(st.rightParse.value, st.currentPath)
    ELSE st.explorePath = <<>> /\ st.currentPath = <<>>

\* C20: after typing in the right editor, a left edit that re-syncs the
\* right side, Resync, or a mode switch that re-syncs, explorePath and
\* currentPath are valid paths of the new right value when it parses, and
\* both are empty when it does not.
C20_PathsFitAfterRightChange ==
    call \in {"rightInput", "leftSync", "resync", "modeSync"} => PathsFit(state)


\* The left text is empty or white space only.
LeftBlank(st) == \A k \in 1..Len(st.leftText) : st.leftText[k] \in {" ", "\t", "\n", "\r"}

\* Nothing of the right document is left in the state.
RightCleared(st) ==
    /\ st.rightText = <<>>
    /\ st.rightParse.empty /\ ~st.rightParse.ok
    /\ ~st.rightDirty
    /\ st.diffRows = <<>>
    /\ st.explorePath = <<>> /\ st.currentPath = <<>>
    /\ st.exploreHits = <<>>

\* C24: after every sequence of user events the right side is locked
\* exactly when the left text is empty or white space only; while it is
\* locked rightText is empty, rightParse is the empty parse, rightDirty is
\* false, and diffRows, explorePath, currentPath and exploreHits are empty;
\* and an input event of the right editor changes nothing while it is locked.
C24_LockedWhileLeftBlank ==
    /\ [](/\ state.rightLocked <=> LeftBlank(state)
          /\ state.rightLocked => RightCleared(state))
    /\ [][(state.rightLocked /\ call' = "rightInput") => state' = state]_vars

\* A white-space-only left text has locked a right side that was unlocked in
\* diff mode, and an input event of the right editor came after it.
C24_Witness ==
    /\ call = "rightInput"
    /\ state.rightLocked
    /\ state.leftText = T_blank
    /\ state.mode = "diff"

\* C28: after every handler, table mode implies that the right side is
\* unlocked, parses and is an array; a switch to table mode while that does
\* not hold, and a left edit in table mode after which it does not hold,
\* leave the mode at "json".
C28_TableOnlyForArrays ==
    /\ state.mode = "table" => isTableModeAvailable(state)
    /\ (state.mode # "table" /\ ~isTableModeAvailable(state)) =>
           \A cursor \in Cursors : setMode(state, "table", cursor).mode = "json"
    /\ state.mode = "table" =>
           \A typed \in LeftTyped, cursor \in Cursors :
               \/ isTableModeAvailable(onLeftInput(state, typed, cursor))
               \/ onLeftInput(state, typed, cursor).mode = "json"

\* The table is shown for an array while the right side follows the left,
\* so that the next left edit can take the array away.
C28_Witness ==
    /\ state.mode = "table"
    /\ ~state.rightDirty
    /\ \E typed \in LeftTyped : ~isTableModeAvailable(onLeftInput(state, typed, 1))


\* The parsed right document: whether it parsed, and its value.
RightDocument(st) == <<st.rightParse.ok, st.rightParse.value>>

\* C25: a left edit that leaves the left text non-blank, made while the
\* right side is dirty or with a left text that does not parse, leaves the
\* parsed value of the right side as it was, in every mode and for every
\* set of collapsed folds.
C25_LeftEditKeepsRight ==
    [][(/\ call' \in {"leftInput", "leftSync"}
        /\ ~LeftBlank(state')
        /\ state.rightDirty \/ ~state'.leftParse.ok)
       => RightDocument(state') = RightDocument(state)]_vars


\* The right side follows the left: it is unlocked and not dirty, and the
\* left text parses.
RightFollowsLeft(st) == ~st.rightLocked /\ ~st.rightDirty /\ st.leftParse.ok

\* C26: after every handler, when the right side is unlocked and not dirty
\* and the left text parses, the right side parses too and its value is the
\* value of the left side; rightText is the serialization of that value
\* without white space in minify mode and with an indent of 2 in the other
\* modes.
C26_CleanRightEqualsLeft ==
    RightFollowsLeft(state) =>
        /\ state.rightParse.ok
        /\ state.rightParse.value = state.leftParse.value
        /\ state.rightText = IF state.mode = "minify"
                             THEN stringifyJson(state.leftParse.value)
                             ELSE stringifyPretty(state.leftParse.value)

\* A switch to minify mode has re-synced the right side from a left text
\* written with white space.
C26_Witness ==
    /\ call = "modeSync"
    /\ RightFollowsLeft(state)
    /\ state.mode = "minify"
    /\ state.leftText = SampleText
    /\ state.rightText # state.leftText


\* A step in which recomputeDiff(true) ran: the Recompute button, a switch
\* into diff mode, Resync in diff mode.
RanFormatted ==
    \/ call' = "recompute"
    \/ call' \in {"setMode", "modeSync"} /\ state'.mode = "diff"
    \/ call' = "resync" /\ state.mode = "diff"

\* A step in which recomputeDiff(false) ran: an edit in diff mode with
\* auto-recompute on, or auto-recompute switched on in diff mode.
RanAutomatic ==
    \/ /\ call' \in {"leftInput", "leftSync", "loadSample"}
       /\ state.mode = "diff" /\ state.autoRecompute
    \/ /\ call' = "rightInput" /\ ~state.rightLocked
       /\ state.mode = "diff" /\ state.autoRecompute
    \/ call' = "autoRecompute" /\ state.mode = "diff" /\ state'.autoRecompute

\* An edit of either text in diff mode with auto-recompute off.
EditedWithoutAuto ==
    /\ \/ call' \in {"leftInput", "leftSync", "loadSample"}
       \/ call' = "rightInput" /\ ~state.rightLocked
    /\ state.mode = "diff" /\ ~state.autoRecompute

BothParse(st) == st.leftParse.ok /\ st.rightParse.ok
AllContext(rs) == \A k \in 1..Len(rs) : rs[k].kind = "context"

\* C21: a recomputeDiff call in which the left or the right text does not
\* parse leaves diffRows empty and clears diffDirtySinceRecompute; diffRows
\* becomes a non-empty sequence only in a step in which recomputeDiff ran
\* with both sides parsed.
C21_RowsOnlyFromParsedSides ==
    [][/\ ((RanFormatted \/ RanAutomatic) /\ ~BothParse(state')) =>
              (state'.diffRows = <<>> /\ ~state'.diffDirtySinceRecompute)
       /\ (state'.diffRows # <<>> /\ state'.diffRows # state.diffRows) =>
              ((RanFormatted \/ RanAutomatic) /\ BothParse(state'))]_vars

\* A recompute with a right text that does not parse has emptied the rows
\* a recompute had made before.
C21_Witness ==
    /\ call = "rightInput"
    /\ state.mode = "diff" /\ state.autoRecompute
    /\ state.leftParse.ok /\ ~state.rightParse.ok /\ ~state.rightParse.empty
    /\ state.diffRows = <<>>

C27_RowsCurrentUnlessDirty ==
    /\ []((state.mode = "diff" /\ ~state.diffDirtySinceRecompute /\ BothParse(state)) =>
              state.diffRows = diffRowsOf(state.leftText, state.rightText))
    /\ [][/\ EditedWithoutAuto => state'.diffDirtySinceRecompute
          /\ (RanFormatted \/ RanAutomatic) => ~state'.diffDirtySinceRecompute]_vars

\* An automatic recompute after a right edit has diffed two texts that
\* differ.
C27_Witness ==
    /\ call = "rightInput"
    /\ state.mode = "diff" /\ state.autoRecompute
    /\ ~state.diffDirtySinceRecompute /\ BothParse(state)
    /\ state.diffRows # <<>> /\ ~AllContext(state.diffRows)

====
